---- MODULE Spec2Model ----
(***************************************************************************)
(* A model of the unified memory coordinator of the Ybryx backend          *)
(* (backend/app/memory/unified_manager.py): the JSONContract validator,    *)
(* session resolution, write_memory, load_context and decay_memory, over   *)
(* a structured store (Supabase tables sessions, memory_logs, audit_logs,  *)
(* goal_assessments, belief_graphs) and a vector store (Mem0).             *)
(*                                                                         *)
(* Every call of a store client is one step of the calling worker, and its *)
(* outcome (a response, or an exception of some class) is chosen by the    *)
(* environment.  Workers are the callers that share the two stores.        *)
(*                                                                         *)
(* Beside the coordinator: its process-wide accessor get_memory_manager,   *)
(* the composite scorer and the namespaces of backend/app/memory/          *)
(* manager.py, the supervisor graph of backend/app/graph/supervisor.py and *)
(* memory_writer_node, each with a specification of its own.               *)
(***************************************************************************)
EXTENDS Integers, Sequences, FiniteSets, TLC

\* ------------------------------------------------------------------ bounds
MaxCalls == 2          \* calls started in one behaviour
MaxAge == 1            \* ages of memory_logs rows are tracked up to this many days

\* ------------------------------------------------------------- value space
Procs == {1, 2}
Users == {"u1", "u2"}
ExtSessionIds == {"s1", "s2"}

NoId == 0                  \* Python None where a store id is expected
None == "<None>"           \* Python None where a string is expected
Absent == "<absent>"       \* the key is not in the dict
NumberV == "<number>"      \* a JSON number
ListV == "<list>"          \* a JSON list
Mappings == {"{a}", "{b}"} \* JSON objects (Python dict)
NonStrings == {None, NumberV, ListV} \cup Mappings

\* str(x) of a payload content: a text, never the mapping itself
StrOf(c) == "str(" \o c \o ")"

\* the exception classes the retry decorator takes for transient
Transient == {"ConnectionError", "TimeoutError"}

\* how a call of a store client ends: with a response, or raising a transient
\* or a permanent error
StoreOutcomes == {"ok", "ConnectionError", "APIError"}

\* ---------------------------------------------------------------- payloads
required_fields == {"timestamp", "agent", "session_id", "type", "content"}

ValidPayload(c, a) ==
  [timestamp |-> "2024-01-01T00:00:00Z", agent |-> a, session_id |-> "s1",
   type |-> "note", content |-> c]

BasePayload == ValidPayload("{a}", "financing")

Payloads ==
  {BasePayload, ValidPayload("{b}", "")}
    \cup {[BasePayload EXCEPT ![f] = Absent] : f \in required_fields}
    \cup {[BasePayload EXCEPT !.timestamp = t] : t \in {"yesterday", NumberV, None}}
    \cup {[BasePayload EXCEPT !.content = c] : c \in {"text", ListV, None}}
    \cup {[BasePayload EXCEPT !.content = "text", !.timestamp = "yesterday"]}

\* the calls of write_memory tried: two well-formed ones (two users, two
\* sessions, two memory kinds, with and without tags) and one for every payload
WriteRequests ==
  {[user_id |-> "u1", session_id |-> "s1", payload |-> BasePayload,
    memory_type |-> "long_term", tags |-> None],
   [user_id |-> "u2", session_id |-> "s2", payload |-> ValidPayload("{b}", ""),
    memory_type |-> "episodic", tags |-> <<"lease">>]}
    \cup {[user_id |-> "u1", session_id |-> "s1", payload |-> pl,
           memory_type |-> "long_term", tags |-> None] : pl \in Payloads}

\* the calls of resolve_session_uuid tried
ResolveRequests ==
  {[session_id |-> "s1", user_id |-> "u1", agent_name |-> "financing"],
   [session_id |-> "s1", user_id |-> None, agent_name |-> None],
   [session_id |-> "s2", user_id |-> "u2", agent_name |-> ""]}

\* ------------------------------------------------------------------- state
VARIABLES
  supabase,      \* self.supabase is not None
  mem0,          \* self.mem0 is not None
  sessions,      \* rows of table sessions
  memory_logs,   \* rows of table memory_logs
  vectors,       \* entries of the vector store
  audit_logs,    \* rows of table audit_logs, in insertion order
  nextLogId,     \* ids handed out by memory_logs so far
  agent_executions, \* rows of table agent_executions
  first_uuid,    \* history: the first internal id returned for each external id
  logged,        \* history: the session references of all rows ever inserted
  workers,       \* the callers of this deployment
  ncalls,        \* calls started
  pc, op, args, loc, attempt, res, wrote,
  memory_manager_instance, \* the module global _memory_manager_instance
  constructed,   \* history: runs of the constructor MemoryManager()
  getter,        \* each thread's position in get_memory_manager
  returned,      \* history: the instances get_memory_manager has returned
  results,       \* the hits the caller of the composite scorer holds
  scored,        \* what _apply_composite_scoring returned for them
  rescored,      \* what it returned when applied to that again
  scoring,       \* how far the caller of the scorer has got
  state,         \* the AgentState of the running supervisor graph
  node,          \* the node of the graph to run next
  invocations,   \* history: runs of supervisor_node in this run of the graph
  writer,        \* the running invocation of memory_writer_node
  entries,       \* what the vector store of the namespaced managers holds
  found          \* history: the last search of a namespaced manager

stores == <<sessions, memory_logs, vectors, audit_logs, nextLogId, agent_executions>>
history == <<first_uuid, logged>>

\* the process-wide accessor of the coordinator
singleton == <<memory_manager_instance, constructed, getter, returned>>

\* the composite scorer's caller
scorer == <<results, scored, rescored, scoring>>

\* the supervisor graph
graph == <<state, node, invocations>>

\* the namespaced managers
namespaced == <<entries, found>>

\* what no operation of the coordinator changes
config == <<supabase, mem0, workers, singleton, scorer, graph, writer, namespaced>>

\* the coordinator, its stores and its callers
coordinator == <<stores, history, supabase, mem0, workers, ncalls, pc, op, args, loc, attempt, res, wrote>>

vars == <<coordinator, singleton, scorer, graph, writer, namespaced>>

\* everything but the accessor, but the scorer, but the graph, but the
\* namespaced managers
beside_singleton == <<coordinator, scorer, graph, writer, namespaced>>
beside_scorer == <<coordinator, singleton, graph, writer, namespaced>>
beside_graph == <<coordinator, singleton, scorer, writer, namespaced>>
beside_namespaced == <<coordinator, singleton, scorer, graph, writer>>

\* _memory_manager_instance = None
NoInstance == 0

\* a thread outside get_memory_manager
NoGetter == [pc |-> "idle", made |-> NoInstance, ret |-> NoInstance, exc |-> "none", calls |-> 0]

\* the module as imported: no instance yet
InitSingleton ==
  /\ memory_manager_instance = NoInstance
  /\ constructed = 0
  /\ getter = [t \in Procs |-> NoGetter]
  /\ returned = {}

\* no hits yet, nothing scored
NotScored == [kind |-> "none", exc |-> "none", value |-> <<>>]

InitScorer ==
  /\ results = <<>>
  /\ scored = NotScored
  /\ rescored = NotScored
  /\ scoring = "idle"

\* an AgentState nothing has run on
NoState ==
  [next_agent |-> "", current_agent |-> "", iteration_count |-> 0, max_iterations |-> 0,
   error |-> None, completed |-> FALSE, messages |-> 0]

\* no graph running
InitGraphIdle ==
  /\ state = NoState
  /\ node = "idle"
  /\ invocations = 0

\* memory_writer_node not running
NoWriter ==
  [at |-> "idle", user_id |-> None, application_id |-> None, completed |-> FALSE,
   memory_written |-> FALSE, memory_write_error |-> FALSE, memory_write_result |-> FALSE,
   raised |-> FALSE, vector |-> NoId, log |-> NoId, ran |-> {}]

InitWriterIdle == writer = NoWriter

\* an empty vector store, nothing searched
InitNamespacedIdle ==
  /\ entries = {}
  /\ found = {}

\* the state outside the coordinator, before anything has used it
InitApart ==
  InitSingleton /\ InitScorer /\ InitGraphIdle /\ InitWriterIdle /\ InitNamespacedIdle

NoArgs ==
  [user_id |-> None, session_id |-> None, agent_name |-> None,
   payload |-> BasePayload, memory_type |-> None, tags |-> None,
   include_goals |-> TRUE, include_beliefs |-> TRUE, max_memories |-> 0,
   threshold_days |-> 0, query |-> "", limit |-> 0, status |-> None,
   event_type |-> None]

\* the locals of the running call; the context snapshot holds row ids
NoLoc == [ret |-> "none", session_uuid |-> NoId, mem0_id |-> NoId,
          supabase_id |-> NoId, exc |-> "none",
          session |-> NoId, recent_memories |-> <<>>, goals |-> {}, beliefs |-> {},
          supabase_deleted |-> 0, mem0_deleted |-> 0,
          memories |-> <<>>, enriched_memories |-> <<>>]

\* what the call returned or raised
NoRes == [kind |-> "none", exc |-> "none", cause |-> "none", uuid |-> NoId,
          supabase_id |-> NoId, mem0_id |-> NoId,
          session |-> NoId, recent_memories |-> <<>>, goals |-> {}, beliefs |-> {},
          supabase_deleted |-> 0, mem0_deleted |-> 0,
          memories |-> <<>>, session_id |-> None, exec_id |-> NoId]

\* what the running call has done so far (history of the call): the rows it
\* wrote, in which order, and the store calls of it that raised
NoWrites == [session |-> NoId, vector |-> NoId, log |-> NoId, log_vector |-> NoId,
             log_session |-> NoId, audit |-> 0, order |-> <<>>, failed |-> {},
             rejected |-> {}, empty |-> {}, ran |-> {}, response |-> "none"]

\* rows of goal_assessments and belief_graphs: owned by other collaborators,
\* only read here
goal_assessments ==
  {[id |-> 1, user_id |-> "u1", session_id |-> "s1", status |-> "active"],
   [id |-> 2, user_id |-> "u1", session_id |-> "s1", status |-> "completed"],
   [id |-> 3, user_id |-> "u2", session_id |-> "s1", status |-> "active"]}

belief_graphs ==
  {[id |-> 1, user_id |-> "u1", session_id |-> "s1"],
   [id |-> 2, user_id |-> "u2", session_id |-> "s2"]}

\* ------------------------------------------------------- contract validator
ReplaceZ(s) == IF s = "2024-01-01T00:00:00Z" THEN "2024-01-01T00:00:00+00:00" ELSE s

IsoParseable == {"2024-01-01T00:00:00+00:00", "2024-01-01T00:00:00"}

\* datetime.fromisoformat(payload["timestamp"].replace("Z", "+00:00"))
TimestampCheck(v) ==
  IF v \in NonStrings THEN "AttributeError"
  ELSE IF ReplaceZ(v) \in IsoParseable THEN "ok" ELSE "ValueError"

validate_jsoncontract_nocontent(payload) ==
  IF \E f \in required_fields : payload[f] = Absent THEN "JSONContractViolation"
  ELSE IF TimestampCheck(payload.timestamp) \in {"ValueError", "AttributeError"}
    THEN "JSONContractViolation"
  ELSE "ok"

validate_jsoncontract(payload) ==
  IF \E f \in required_fields : payload[f] = Absent THEN "JSONContractViolation"
  ELSE IF TimestampCheck(payload.timestamp) \in {"ValueError", "AttributeError"}
    THEN "JSONContractViolation"
  ELSE IF payload.content \notin Mappings THEN "JSONContractViolation"
  ELSE "ok"

\* ------------------------------------------------------------ retry policy
max_attempts == 3

\* tenacity: retry_if_exception_type((ConnectionError, TimeoutError)),
\* stop_after_attempt(max_attempts), reraise=True
retry_on_failure(exc, n) == exc \in Transient /\ n < max_attempts

Decorated == {"write_memory", "load_context", "recall_memory", "decay_memory"}

Entry(o) ==
  CASE o = "write_memory" -> "wm_enter"
    [] o = "load_context" -> "lc_session"
    [] o = "decay_memory" -> "dm_delete"
    [] o = "recall_memory" -> "rm_search"
    [] OTHER -> "rs_lookup"

\* the call of worker p ends by raising exc: retried by the decorator, or surfaced
Raise(p, exc) ==
  IF op[p] \in Decorated /\ retry_on_failure(exc, attempt[p])
  THEN /\ attempt' = [attempt EXCEPT ![p] = @ + 1]
       /\ pc' = [pc EXCEPT ![p] = Entry(op[p])]
       /\ loc' = [loc EXCEPT ![p] = NoLoc]
       /\ res' = res
  ELSE /\ pc' = [pc EXCEPT ![p] = "done"]
       /\ res' = [res EXCEPT ![p] = [NoRes EXCEPT !.kind = "raise", !.exc = exc,
                                                  !.cause = loc[p].exc]]
       /\ UNCHANGED <<attempt, loc>>

\* a store call raised outside an inner try: leave the try block for the handler
Fails(p, outcome, handler) ==
  /\ loc' = [loc EXCEPT ![p].exc = outcome]
  /\ pc' = [pc EXCEPT ![p] = handler]

\* the call of worker p returns r
Return(p, r) ==
  /\ pc' = [pc EXCEPT ![p] = "done"]
  /\ res' = [res EXCEPT ![p] = r]
  /\ UNCHANGED <<attempt, loc>>

\* ------------------------------------------------------------------- audit
\* log_event without a session id: one insert into audit_logs, never raising
log_event(outcome, user_id, event_type) ==
  IF supabase /\ outcome = "ok"
  THEN Append(audit_logs, [event_type |-> event_type, event_category |-> "memory",
                           severity |-> "info", session_id |-> NoId])
  ELSE audit_logs

\* the history of p's call after a store call named step ended with outcome
Noted(w, step, outcome) ==
  IF outcome = "duplicate"
  THEN [w EXCEPT !.failed = @ \cup {step}, !.rejected = @ \cup {step},
                 !.ran = @ \cup {step}]
  ELSE IF outcome \in StoreOutcomes \ {"ok"} \/ outcome = "error"
  THEN [w EXCEPT !.failed = @ \cup {step}, !.ran = @ \cup {step}]
  ELSE IF outcome = "nodata"
    THEN [w EXCEPT !.empty = @ \cup {step}, !.ran = @ \cup {step}]
    ELSE [w EXCEPT !.ran = @ \cup {step}]

\* the history of p's call after log_event's insert ended with outcome
Audited(p, outcome) ==
  IF supabase
  THEN Noted([wrote[p] EXCEPT !.audit = IF outcome = "ok" THEN @ + 1 ELSE @],
             "audit", outcome)
  ELSE wrote[p]

\* -------------------------------------------------------- session resolver
session_data(session_id, user_id, agent_name) ==
  [id |-> Cardinality(sessions) + 1,
   session_id |-> session_id,
   user_id |-> user_id,
   agent_name |-> IF agent_name \in {None, ""} THEN "unknown" ELSE agent_name,
   status |-> "active",
   ended_at |-> None]

\* resolve_session_uuid returns v to its caller
Resolved(p, v) ==
  /\ first_uuid' = IF v # NoId /\ first_uuid[args[p].session_id] = NoId
                   THEN [first_uuid EXCEPT ![args[p].session_id] = v]
                   ELSE first_uuid
  /\ IF loc[p].ret = "done"
     THEN /\ Return(p, [NoRes EXCEPT !.kind = "return", !.uuid = v])
     ELSE /\ pc' = [pc EXCEPT ![p] = loc[p].ret]
          /\ loc' = [loc EXCEPT ![p].session_uuid = v]
          /\ UNCHANGED <<attempt, res>>

\* except Exception: log it and return None
resolve_failed_raises(p) ==
  /\ Raise(p, "SupabaseConnectionError")
  /\ UNCHANGED first_uuid

resolve_failed(p) == Resolved(p, NoId)

\* .select("id").eq("session_id", session_id).limit(1)
select_session_closed(session_id) ==
  {r \in sessions : r.session_id = session_id /\ r.status # "active"}

select_session(session_id) == {r \in sessions : r.session_id = session_id}

CallResolve(p, session_id, user_id, agent_name) ==
  /\ p \in workers /\ pc[p] = "idle" /\ ncalls < MaxCalls
  /\ ncalls' = ncalls + 1
  /\ op' = [op EXCEPT ![p] = "resolve_session_uuid"]
  /\ args' = [args EXCEPT ![p] = [NoArgs EXCEPT !.session_id = session_id,
                                   !.user_id = user_id, !.agent_name = agent_name]]
  /\ pc' = [pc EXCEPT ![p] = "rs_lookup"]
  /\ loc' = [loc EXCEPT ![p] = [NoLoc EXCEPT !.ret = "done"]]
  /\ attempt' = [attempt EXCEPT ![p] = 1]
  /\ res' = [res EXCEPT ![p] = NoRes]
  /\ wrote' = [wrote EXCEPT ![p] = NoWrites]
  /\ UNCHANGED <<stores, history, config>>

\* the lookup: if not self.supabase ... select("id").eq("session_id", ..).limit(1)
ResolveLookup(p, outcome) ==
  /\ pc[p] = "rs_lookup"
  /\ IF ~supabase
     THEN Resolved(p, NoId) /\ UNCHANGED wrote
     ELSE /\ wrote' = [wrote EXCEPT ![p] = Noted(@, "session_lookup", outcome)]
          /\ IF outcome # "ok"
             THEN resolve_failed(p)
             ELSE IF select_session(args[p].session_id) # {}
               THEN \E r \in select_session(args[p].session_id) : Resolved(p, r.id)
               ELSE /\ pc' = [pc EXCEPT ![p] = "rs_insert"]
                    /\ UNCHANGED <<attempt, loc, res, first_uuid>>
  /\ UNCHANGED <<stores, logged, config, ncalls, op, args>>

\* the insert of the new session row; "duplicate" is the store rejecting a second
\* row for the external id, "nodata" an insert answered without the row
ResolveInsert(p, outcome) ==
  /\ pc[p] = "rs_insert"
  /\ outcome = "duplicate" => select_session(args[p].session_id) # {}
  /\ LET row == session_data(args[p].session_id, args[p].user_id,
                             IF op[p] = "write_memory" THEN args[p].payload.agent
                             ELSE args[p].agent_name)
     IN IF outcome \in {"ok", "nodata"}
        THEN /\ sessions' = sessions \cup {row}
             /\ wrote' = [wrote EXCEPT ![p] =
                            [Noted(@, "session_insert", outcome) EXCEPT
                               !.session = row.id, !.order = Append(@, "session")]]
             /\ Resolved(p, IF outcome = "ok" THEN row.id ELSE NoId)
        ELSE /\ resolve_failed(p)
             /\ wrote' = [wrote EXCEPT ![p] = Noted(@, "session_insert", outcome)]
             /\ UNCHANGED sessions
  /\ UNCHANGED <<memory_logs, vectors, audit_logs, nextLogId, agent_executions, logged, config, ncalls,
                 op, args>>

\* ------------------------------------------------------------ write_memory
\* tags or []
TagsOrEmpty(t) == IF t = None THEN <<>> ELSE t

CallWriteMemory(p, user_id, session_id, payload, memory_type, tags) ==
  /\ p \in workers /\ pc[p] = "idle" /\ ncalls < MaxCalls
  /\ ncalls' = ncalls + 1
  /\ op' = [op EXCEPT ![p] = "write_memory"]
  /\ args' = [args EXCEPT ![p] = [NoArgs EXCEPT !.user_id = user_id,
                !.session_id = session_id, !.payload = payload,
                !.memory_type = memory_type, !.tags = tags]]
  /\ pc' = [pc EXCEPT ![p] = "wm_enter"]
  /\ loc' = [loc EXCEPT ![p] = NoLoc]
  /\ attempt' = [attempt EXCEPT ![p] = 1]
  /\ res' = [res EXCEPT ![p] = NoRes]
  /\ wrote' = [wrote EXCEPT ![p] = NoWrites]
  /\ UNCHANGED <<stores, history, config>>

\* validate_jsoncontract(payload), outside the try block
WriteValidate(p) ==
  /\ pc[p] = "wm_enter"
  /\ IF validate_jsoncontract(args[p].payload) # "ok"
     THEN Raise(p, validate_jsoncontract(args[p].payload))
     ELSE /\ pc' = [pc EXCEPT ![p] = "rs_lookup"]
          /\ loc' = [loc EXCEPT ![p] = [NoLoc EXCEPT !.ret = "wm_add"]]
          /\ UNCHANGED <<attempt, res>>
  /\ UNCHANGED <<stores, history, config, ncalls, op, args, wrote>>

AddResponses == {"dict", "list", "dict_noid", "list_empty", "error"}

mem0_metadata(a) ==
  [user_id |-> a.user_id, session_id |-> a.session_id,
   agent_name |-> a.payload.agent, memory_type |-> a.memory_type,
   tags |-> TagsOrEmpty(a.tags), timestamp |-> a.payload.timestamp]

\* the id write_memory reads from the response of mem0.add
mem0_id_of_dict_only(response, id) == IF response = "dict" THEN id ELSE NoId

mem0_id_of(response, id) == IF response \in {"dict", "list"} THEN id ELSE NoId

\* 1. the vector write, failure tolerated
WriteVector(p, response) ==
  /\ pc[p] = "wm_add"
  /\ LET id == Cardinality(vectors) + 1
         entry == [id |-> id, user_id |-> args[p].user_id,
                   content |-> StrOf(args[p].payload.content),
                   metadata |-> mem0_metadata(args[p])]
     IN IF mem0 /\ response \in {"dict", "list", "dict_noid"}
        THEN /\ vectors' = vectors \cup {entry}
             /\ loc' = [loc EXCEPT ![p].mem0_id = mem0_id_of(response, id)]
             /\ wrote' = [wrote EXCEPT ![p] =
                            [Noted(@, "vector_add", response) EXCEPT
                               !.vector = id, !.order = Append(@, "vector"),
                               !.response = response]]
        ELSE /\ wrote' = [wrote EXCEPT ![p] =
                            IF mem0
                            THEN [Noted(@, "vector_add", response) EXCEPT
                                    !.response = response]
                            ELSE @]
             /\ UNCHANGED <<vectors, loc>>
  /\ pc' = [pc EXCEPT ![p] = "wm_insert"]
  /\ UNCHANGED <<sessions, memory_logs, audit_logs, nextLogId, agent_executions, history, config,
                 ncalls, op, args, attempt, res>>

memory_log(a, session_uuid, mem0_id) ==
  [id |-> nextLogId + 1,
   user_id |-> a.user_id,
   session_id |-> session_uuid,
   agent_name |-> a.payload.agent,
   operation_type |-> "write",
   memory_type |-> a.memory_type,
   content |-> StrOf(a.payload.content),
   tags |-> TagsOrEmpty(a.tags),
   metadata |-> a.payload,
   vector_id |-> mem0_id,
   age |-> 0]

\* if self.supabase and session_uuid:
StructuredWriteDue_linked_only(l) ==
  supabase /\ l.session_uuid # NoId /\ l.mem0_id # NoId

StructuredWriteDue_unresolved(l) == supabase

StructuredWriteDue(l) == supabase /\ l.session_uuid # NoId

\* 2. the structured write; an exception leaves the try block
WriteStructured(p, outcome) ==
  /\ pc[p] = "wm_insert"
  /\ IF StructuredWriteDue(loc[p])
     THEN IF outcome \in {"ok", "nodata"}
          THEN LET row == memory_log(args[p], loc[p].session_uuid, loc[p].mem0_id)
               IN /\ memory_logs' = memory_logs \cup {row}
                  /\ nextLogId' = nextLogId + 1
                  /\ logged' = logged \cup {row.session_id}
                  /\ loc' = [loc EXCEPT ![p].supabase_id =
                               IF outcome = "ok" THEN row.id ELSE NoId]
                  /\ wrote' = [wrote EXCEPT ![p] =
                                 [Noted(@, "log_insert", outcome) EXCEPT
                                    !.log = row.id,
                                    !.log_vector = row.vector_id,
                                    !.log_session = row.session_id,
                                    !.order = Append(@, "log")]]
                  /\ pc' = [pc EXCEPT ![p] = "wm_audit"]
          ELSE /\ Fails(p, outcome, "wm_error")
               /\ wrote' = [wrote EXCEPT ![p] = Noted(@, "log_insert", outcome)]
               /\ UNCHANGED <<memory_logs, nextLogId, logged>>
     ELSE /\ pc' = [pc EXCEPT ![p] = "wm_audit"]
          /\ UNCHANGED <<memory_logs, nextLogId, logged, loc, wrote>>
  /\ UNCHANGED <<sessions, vectors, audit_logs, agent_executions, first_uuid, config,
                 ncalls, op, args, attempt, res>>

\* 3. the audit event, then return result
WriteAudit(p, outcome) ==
  /\ pc[p] = "wm_audit"
  /\ audit_logs' = log_event(outcome, args[p].user_id, "memory_written")
  /\ wrote' = [wrote EXCEPT ![p] = Audited(p, outcome)]
  /\ Return(p, [NoRes EXCEPT !.kind = "return", !.supabase_id = loc[p].supabase_id,
                             !.mem0_id = loc[p].mem0_id])
  /\ UNCHANGED <<sessions, memory_logs, vectors, nextLogId, agent_executions, history, config, ncalls,
                 op, args>>

\* except Exception: the error event, then raise MemoryManagerError
WriteError(p, outcome) ==
  /\ pc[p] = "wm_error"
  /\ audit_logs' = log_event(outcome, args[p].user_id, "memory_write_error")
  /\ wrote' = [wrote EXCEPT ![p] = Audited(p, outcome)]
  /\ Raise(p, "MemoryManagerError")
  /\ UNCHANGED <<sessions, memory_logs, vectors, nextLogId, agent_executions, history, config, ncalls,
                 op, args>>

\* ------------------------------------------------------------ load_context
LoadRequests ==
  {[user_id |-> "u1", session_id |-> "s1", agent_name |-> "financing",
    include_goals |-> TRUE, include_beliefs |-> TRUE, max_memories |-> 2],
   [user_id |-> "u1", session_id |-> "s1", agent_name |-> None,
    include_goals |-> TRUE, include_beliefs |-> FALSE, max_memories |-> 1],
   [user_id |-> "u2", session_id |-> "s1", agent_name |-> None,
    include_goals |-> FALSE, include_beliefs |-> TRUE, max_memories |-> 2]}

CallLoadContext(p, rq) ==
  /\ p \in workers /\ pc[p] = "idle" /\ ncalls < MaxCalls
  /\ ncalls' = ncalls + 1
  /\ op' = [op EXCEPT ![p] = "load_context"]
  /\ args' = [args EXCEPT ![p] = [NoArgs EXCEPT !.user_id = rq.user_id,
                !.session_id = rq.session_id, !.agent_name = rq.agent_name,
                !.include_goals = rq.include_goals,
                !.include_beliefs = rq.include_beliefs,
                !.max_memories = rq.max_memories]]
  /\ pc' = [pc EXCEPT ![p] = "lc_session"]
  /\ loc' = [loc EXCEPT ![p] = NoLoc]
  /\ attempt' = [attempt EXCEPT ![p] = 1]
  /\ res' = [res EXCEPT ![p] = NoRes]
  /\ wrote' = [wrote EXCEPT ![p] = NoWrites]
  /\ UNCHANGED <<stores, history, config>>

\* 1. the session row
LoadSession(p, outcome) ==
  /\ pc[p] = "lc_session"
  /\ IF supabase
     THEN /\ wrote' = [wrote EXCEPT ![p] = Noted(@, "session", outcome)]
          /\ IF outcome = "ok"
             THEN /\ pc' = [pc EXCEPT ![p] = "lc_memories"]
                  /\ IF select_session(args[p].session_id) # {}
                     THEN \E r \in select_session(args[p].session_id) :
                            loc' = [loc EXCEPT ![p].session = r.id]
                     ELSE loc' = loc
             ELSE Fails(p, outcome, "lc_error")
     ELSE /\ pc' = [pc EXCEPT ![p] = "lc_memories"]
          /\ UNCHANGED <<loc, wrote>>
  /\ UNCHANGED <<stores, history, config, ncalls, op, args, attempt, res>>

\* the filters load_context hands to mem0.search
load_filters_any_session(a) ==
  [user_id |-> a.user_id, session_id |-> Absent,
   agent_name |-> IF a.agent_name \in {None, ""} THEN Absent ELSE a.agent_name,
   tags |-> Absent]

load_filters(a) ==
  [user_id |-> a.user_id, session_id |-> a.session_id,
   agent_name |-> IF a.agent_name \in {None, ""} THEN Absent ELSE a.agent_name,
   tags |-> Absent]

\* the vector store's answer to search(query, user_id, filters, limit): the
\* entries of the user that match every filter given, at most limit of them, in
\* an order of its choosing
Matches(user_id, f) ==
  {e \in vectors :
     /\ e.user_id = user_id
     /\ e.metadata.user_id = f.user_id
     /\ f.session_id # Absent => e.metadata.session_id = f.session_id
     /\ f.agent_name # Absent => e.metadata.agent_name = f.agent_name
     /\ f.tags # Absent => e.metadata.tags = f.tags}

Min(a, b) == IF a < b THEN a ELSE b

SearchResults(user_id, f, limit) ==
  LET M == {e.id : e \in Matches(user_id, f)}
      n == Min(limit, Cardinality(M))
  IN {q \in [1..n -> M] : \A i, j \in 1..n : i # j => q[i] # q[j]}

\* except Exception around mem0.search: log it and go on
mem0_load_failed_aborts(p, outcome) == Fails(p, outcome, "lc_error")

mem0_load_failed(p, outcome) ==
  /\ loc' = loc
  /\ pc' = [pc EXCEPT ![p] = "lc_goals"]

\* 2. the recent memories, in a try block of their own
LoadMemories(p, outcome) ==
  /\ pc[p] = "lc_memories"
  /\ IF mem0
     THEN /\ wrote' = [wrote EXCEPT ![p] = Noted(@, "memories", outcome)]
          /\ IF outcome = "ok"
             THEN /\ \E q \in SearchResults(args[p].user_id, load_filters(args[p]),
                                            args[p].max_memories) :
                       loc' = [loc EXCEPT ![p].recent_memories = q]
                  /\ pc' = [pc EXCEPT ![p] = "lc_goals"]
             ELSE mem0_load_failed(p, outcome)
     ELSE /\ pc' = [pc EXCEPT ![p] = "lc_goals"]
          /\ UNCHANGED <<loc, wrote>>
  /\ UNCHANGED <<stores, history, config, ncalls, op, args, attempt, res>>

\* 3. the active goals
LoadGoals(p, outcome) ==
  /\ pc[p] = "lc_goals"
  /\ IF args[p].include_goals /\ supabase
     THEN /\ wrote' = [wrote EXCEPT ![p] = Noted(@, "goals", outcome)]
          /\ IF outcome = "ok"
             THEN /\ loc' = [loc EXCEPT ![p].goals =
                               {g.id : g \in {r \in goal_assessments :
                                   /\ r.user_id = args[p].user_id
                                   /\ r.session_id = args[p].session_id
                                   /\ r.status = "active"}}]
                  /\ pc' = [pc EXCEPT ![p] = "lc_beliefs"]
             ELSE Fails(p, outcome, "lc_error")
     ELSE /\ pc' = [pc EXCEPT ![p] = "lc_beliefs"]
          /\ UNCHANGED <<loc, wrote>>
  /\ UNCHANGED <<stores, history, config, ncalls, op, args, attempt, res>>

\* 4. the beliefs
LoadBeliefs(p, outcome) ==
  /\ pc[p] = "lc_beliefs"
  /\ IF args[p].include_beliefs /\ supabase
     THEN /\ wrote' = [wrote EXCEPT ![p] = Noted(@, "beliefs", outcome)]
          /\ IF outcome = "ok"
             THEN /\ loc' = [loc EXCEPT ![p].beliefs =
                               {b.id : b \in {r \in belief_graphs :
                                   /\ r.user_id = args[p].user_id
                                   /\ r.session_id = args[p].session_id}}]
                  /\ pc' = [pc EXCEPT ![p] = "lc_audit"]
             ELSE Fails(p, outcome, "lc_error")
     ELSE /\ pc' = [pc EXCEPT ![p] = "lc_audit"]
          /\ UNCHANGED <<loc, wrote>>
  /\ UNCHANGED <<stores, history, config, ncalls, op, args, attempt, res>>

\* the audit event, then return context
LoadAudit(p, outcome) ==
  /\ pc[p] = "lc_audit"
  /\ audit_logs' = log_event(outcome, args[p].user_id, "context_loaded")
  /\ wrote' = [wrote EXCEPT ![p] = Audited(p, outcome)]
  /\ Return(p, [NoRes EXCEPT !.kind = "return", !.session = loc[p].session,
                             !.recent_memories = loc[p].recent_memories,
                             !.goals = loc[p].goals, !.beliefs = loc[p].beliefs])
  /\ UNCHANGED <<sessions, memory_logs, vectors, nextLogId, agent_executions, history, config, ncalls,
                 op, args>>

\* except Exception: the error event, then raise MemoryManagerError
LoadError(p, outcome) ==
  /\ pc[p] = "lc_error"
  /\ audit_logs' = log_event(outcome, args[p].user_id, "context_load_error")
  /\ wrote' = [wrote EXCEPT ![p] = Audited(p, outcome)]
  /\ Raise(p, "MemoryManagerError")
  /\ UNCHANGED <<sessions, memory_logs, vectors, nextLogId, agent_executions, history, config, ncalls,
                 op, args>>

\* ------------------------------------------------------------ decay_memory
MemoryKinds == {None, "long_term"}

CallDecayMemory(p, user_id, threshold_days, memory_type) ==
  /\ p \in workers /\ pc[p] = "idle" /\ ncalls < MaxCalls
  /\ ncalls' = ncalls + 1
  /\ op' = [op EXCEPT ![p] = "decay_memory"]
  /\ args' = [args EXCEPT ![p] = [NoArgs EXCEPT !.user_id = user_id,
                !.threshold_days = threshold_days, !.memory_type = memory_type]]
  /\ pc' = [pc EXCEPT ![p] = "dm_delete"]
  /\ loc' = [loc EXCEPT ![p] = NoLoc]
  /\ attempt' = [attempt EXCEPT ![p] = 1]
  /\ res' = [res EXCEPT ![p] = NoRes]
  /\ wrote' = [wrote EXCEPT ![p] = NoWrites]
  /\ UNCHANGED <<stores, history, config>>

Decayed_any_user(user_id, threshold_days, memory_type) ==
  {r \in memory_logs :
     /\ r.age >= threshold_days
     /\ memory_type \notin {None, ""} => r.memory_type = memory_type}

\* the rows delete().eq("user_id", ..).lt("timestamp", cutoff)[.eq("memory_type", ..)]
\* removes: age counts the whole days since the row was written, so the row is
\* older than the cutoff when age >= threshold_days

Decayed(user_id, threshold_days, memory_type) ==
  {r \in memory_logs :
     /\ r.user_id = user_id
     /\ r.age >= threshold_days
     /\ memory_type \notin {None, ""} => r.memory_type = memory_type}

\* 2. the vector delete: the filters are built, the delete_many call is
\* commented out, so no entry is removed and mem0_deleted stays 0
mem0_decayed_by_user(a) == {e \in vectors : e.user_id = a.user_id}

mem0_decayed(a) == {}

\* 1. the structured delete, then 2.
DecayDelete(p, outcome) ==
  /\ pc[p] = "dm_delete"
  /\ IF supabase
     THEN /\ wrote' = [wrote EXCEPT ![p] = Noted(@, "delete", outcome)]
          /\ IF outcome = "ok"
             THEN LET gone == Decayed(args[p].user_id, args[p].threshold_days,
                                      args[p].memory_type)
                  IN /\ memory_logs' = memory_logs \ gone
                     /\ loc' = [loc EXCEPT ![p].supabase_deleted = Cardinality(gone)]
                     /\ pc' = [pc EXCEPT ![p] = "dm_audit"]
                     /\ vectors' = IF mem0 THEN vectors \ mem0_decayed(args[p])
                                   ELSE vectors
             ELSE /\ Fails(p, outcome, "dm_error")
                  /\ UNCHANGED <<memory_logs, vectors>>
     ELSE /\ pc' = [pc EXCEPT ![p] = "dm_audit"]
          /\ vectors' = IF mem0 THEN vectors \ mem0_decayed(args[p]) ELSE vectors
          /\ UNCHANGED <<memory_logs, loc, wrote>>
  /\ UNCHANGED <<sessions, audit_logs, nextLogId, agent_executions, history, config, ncalls,
                 op, args, attempt, res>>

DecayAudit(p, outcome) ==
  /\ pc[p] = "dm_audit"
  /\ audit_logs' = log_event(outcome, args[p].user_id, "memory_decayed")
  /\ wrote' = [wrote EXCEPT ![p] = Audited(p, outcome)]
  /\ Return(p, [NoRes EXCEPT !.kind = "return",
                             !.supabase_deleted = loc[p].supabase_deleted,
                             !.mem0_deleted = loc[p].mem0_deleted])
  /\ UNCHANGED <<sessions, memory_logs, vectors, nextLogId, agent_executions, history, config, ncalls,
                 op, args>>

DecayError(p, outcome) ==
  /\ pc[p] = "dm_error"
  /\ audit_logs' = log_event(outcome, args[p].user_id, "memory_decay_error")
  /\ wrote' = [wrote EXCEPT ![p] = Audited(p, outcome)]
  /\ Raise(p, "MemoryManagerError")
  /\ UNCHANGED <<sessions, memory_logs, vectors, nextLogId, agent_executions, history, config, ncalls,
                 op, args>>

\* ----------------------------------------------------------- recall_memory
\* the calls of recall_memory tried; the query is left to the vector store
RecallRequests ==
  {[user_id |-> "u1", query |-> "q", session_id |-> "s1", agent_name |-> None,
    tags |-> None, limit |-> 2],
   [user_id |-> "u1", query |-> "q", session_id |-> None, agent_name |-> "financing",
    tags |-> None, limit |-> 1],
   [user_id |-> "u2", query |-> "q", session_id |-> "s2", agent_name |-> None,
    tags |-> <<"lease">>, limit |-> 2]}

CallRecallMemory(p, rq) ==
  /\ p \in workers /\ pc[p] = "idle" /\ ncalls < MaxCalls
  /\ ncalls' = ncalls + 1
  /\ op' = [op EXCEPT ![p] = "recall_memory"]
  /\ args' = [args EXCEPT ![p] = [NoArgs EXCEPT !.user_id = rq.user_id,
                !.query = rq.query, !.session_id = rq.session_id,
                !.agent_name = rq.agent_name, !.tags = rq.tags, !.limit = rq.limit]]
  /\ pc' = [pc EXCEPT ![p] = "rm_search"]
  /\ loc' = [loc EXCEPT ![p] = NoLoc]
  /\ attempt' = [attempt EXCEPT ![p] = 1]
  /\ res' = [res EXCEPT ![p] = NoRes]
  /\ wrote' = [wrote EXCEPT ![p] = NoWrites]
  /\ UNCHANGED <<stores, history, config>>

\* filters = {"user_id": user_id} plus the optional filters that are truthy
recall_filters(a) ==
  [user_id |-> a.user_id,
   session_id |-> IF a.session_id \in {None, ""} THEN Absent ELSE a.session_id,
   agent_name |-> IF a.agent_name \in {None, ""} THEN Absent ELSE a.agent_name,
   tags |-> IF TagsOrEmpty(a.tags) = <<>> THEN Absent ELSE a.tags]

\* a hit as the vector store returns it: no supabase_data key yet
Hit(id) == [id |-> id, supabase_data |-> {}]

\* if not self.mem0: return []
recall_unavailable_raises(p) == Raise(p, "Mem0ConnectionError")

recall_unavailable(p) == Return(p, [NoRes EXCEPT !.kind = "return"])

\* the rows select("*").eq("vector_id", mem0_id).limit(1) can answer with
supabase_log_by_row_id(mem0_id) == {r \in memory_logs : r.id = mem0_id}

supabase_log(mem0_id) == {r \in memory_logs : r.vector_id = mem0_id}

\* the guard, then mem0.search(query, user_id, filters, limit)
RecallSearch(p, outcome) ==
  /\ pc[p] = "rm_search"
  /\ IF ~mem0
     THEN recall_unavailable(p) /\ UNCHANGED wrote
     ELSE /\ wrote' = [wrote EXCEPT ![p] = Noted(@, "search", outcome)]
          /\ UNCHANGED <<attempt, res>>
          /\ IF outcome = "ok"
             THEN \E q \in SearchResults(args[p].user_id, recall_filters(args[p]),
                                         args[p].limit) :
                    LET memories == [i \in DOMAIN q |-> Hit(q[i])]
                    IN IF supabase /\ memories # <<>>
                       THEN /\ loc' = [loc EXCEPT ![p].memories = memories]
                            /\ pc' = [pc EXCEPT ![p] = "rm_enrich"]
                       ELSE /\ loc' = [loc EXCEPT ![p].memories = memories,
                                                  ![p].enriched_memories = memories]
                            /\ pc' = [pc EXCEPT ![p] = "rm_audit"]
             ELSE Fails(p, outcome, "rm_error")
  /\ UNCHANGED <<stores, history, config, ncalls, op, args>>

\* one turn of the loop: fetch the row of the next hit and attach it
RecallEnrich(p, outcome) ==
  /\ pc[p] = "rm_enrich"
  /\ wrote' = [wrote EXCEPT ![p] = Noted(@, "enrich", outcome)]
  /\ LET i == Len(loc[p].enriched_memories) + 1
         memory == loc[p].memories[i]
         next == IF i = Len(loc[p].memories) THEN "rm_audit" ELSE "rm_enrich"
     IN IF outcome = "ok"
        THEN /\ pc' = [pc EXCEPT ![p] = next]
             /\ IF supabase_log(memory.id) # {}
                THEN \E r \in supabase_log(memory.id) :
                       loc' = [loc EXCEPT ![p].enriched_memories =
                                 Append(@, [memory EXCEPT !.supabase_data = {r}])]
                ELSE loc' = [loc EXCEPT ![p].enriched_memories = Append(@, memory)]
        ELSE Fails(p, outcome, "rm_error")
  /\ UNCHANGED <<stores, history, config, ncalls, op, args, attempt, res>>

\* the audit event, then return enriched_memories
RecallAudit(p, outcome) ==
  /\ pc[p] = "rm_audit"
  /\ audit_logs' = log_event(outcome, args[p].user_id, "memory_recalled")
  /\ wrote' = [wrote EXCEPT ![p] = Audited(p, outcome)]
  /\ Return(p, [NoRes EXCEPT !.kind = "return",
                             !.memories = loc[p].enriched_memories])
  /\ UNCHANGED <<sessions, memory_logs, vectors, nextLogId, agent_executions, history,
                 config, ncalls, op, args>>

\* except Exception: the error event, then return []
RecallError(p, outcome) ==
  /\ pc[p] = "rm_error"
  /\ audit_logs' = log_event(outcome, args[p].user_id, "memory_recall_error")
  /\ wrote' = [wrote EXCEPT ![p] = Audited(p, outcome)]
  /\ Return(p, [NoRes EXCEPT !.kind = "return"])
  /\ UNCHANGED <<sessions, memory_logs, vectors, nextLogId, agent_executions, history,
                 config, ncalls, op, args>>

\* ------------------------------------------------- sessions, events, runs
\* the session ids uuid4() can hand out
GeneratedIds == {"g1", "g2"}

\* the row create_session inserts; client_info is left out
created_session(session_id, user_id, agent_name) ==
  [id |-> Cardinality(sessions) + 1,
   session_id |-> session_id,
   user_id |-> user_id,
   agent_name |-> agent_name,
   status |-> "active",
   ended_at |-> None]

CallCreateSession(p, user_id, agent_name) ==
  /\ p \in workers /\ pc[p] = "idle" /\ ncalls < MaxCalls
  /\ \E g \in GeneratedIds : \A r \in sessions : r.session_id # g
  /\ ncalls' = ncalls + 1
  /\ op' = [op EXCEPT ![p] = "create_session"]
  /\ args' = [args EXCEPT ![p] = [NoArgs EXCEPT !.user_id = user_id,
                                   !.agent_name = agent_name]]
  /\ pc' = [pc EXCEPT ![p] = "cs_insert"]
  /\ loc' = [loc EXCEPT ![p] = NoLoc]
  /\ attempt' = [attempt EXCEPT ![p] = 1]
  /\ res' = [res EXCEPT ![p] = NoRes]
  /\ wrote' = [wrote EXCEPT ![p] = NoWrites]
  /\ UNCHANGED <<stores, history, config>>

\* the guard, session_id = str(uuid4()), the insert outside any try block
CreateSession(p, outcome) ==
  /\ pc[p] = "cs_insert"
  /\ IF ~supabase
     THEN Raise(p, "SupabaseConnectionError") /\ UNCHANGED <<sessions, wrote>>
     ELSE IF outcome = "ok"
       THEN \E g \in GeneratedIds :
              /\ \A r \in sessions : r.session_id # g
              /\ LET row == created_session(g, args[p].user_id, args[p].agent_name)
                 IN /\ sessions' = sessions \cup {row}
                    /\ wrote' = [wrote EXCEPT ![p] =
                                   [Noted(@, "session_insert", outcome) EXCEPT
                                      !.session = row.id,
                                      !.order = Append(@, "session")]]
                    /\ Return(p, [NoRes EXCEPT !.kind = "return", !.session_id = g])
       ELSE /\ Raise(p, outcome)
            /\ wrote' = [wrote EXCEPT ![p] = Noted(@, "session_insert", outcome)]
            /\ UNCHANGED sessions
  /\ UNCHANGED <<memory_logs, vectors, audit_logs, nextLogId, agent_executions, history,
                 config, ncalls, op, args>>

\* the final statuses tried
CloseStatuses == {"completed", "failed"}

CallCloseSession(p, session_id, status) ==
  /\ p \in workers /\ pc[p] = "idle" /\ ncalls < MaxCalls
  /\ ncalls' = ncalls + 1
  /\ op' = [op EXCEPT ![p] = "close_session"]
  /\ args' = [args EXCEPT ![p] = [NoArgs EXCEPT !.session_id = session_id,
                                   !.status = status]]
  /\ pc' = [pc EXCEPT ![p] = "cl_update"]
  /\ loc' = [loc EXCEPT ![p] = NoLoc]
  /\ attempt' = [attempt EXCEPT ![p] = 1]
  /\ res' = [res EXCEPT ![p] = NoRes]
  /\ wrote' = [wrote EXCEPT ![p] = NoWrites]
  /\ UNCHANGED <<stores, history, config>>

\* update({"status": status, "ended_at": now}).eq("session_id", session_id)
closed(r, status) == [r EXCEPT !.status = status, !.ended_at = "now"]

close_update_deleting(session_id, status) ==
  {r \in sessions : r.session_id # session_id}

close_update(session_id, status) ==
  {IF r.session_id = session_id THEN closed(r, status) ELSE r : r \in sessions}

\* the guard, then the update outside any try block
CloseSession(p, outcome) ==
  /\ pc[p] = "cl_update"
  /\ IF ~supabase
     THEN Return(p, [NoRes EXCEPT !.kind = "return"]) /\ UNCHANGED <<sessions, wrote>>
     ELSE /\ wrote' = [wrote EXCEPT ![p] = Noted(@, "session_update", outcome)]
          /\ IF outcome = "ok"
             THEN /\ sessions' = close_update(args[p].session_id, args[p].status)
                  /\ Return(p, [NoRes EXCEPT !.kind = "return"])
             ELSE Raise(p, outcome) /\ UNCHANGED sessions
  /\ UNCHANGED <<memory_logs, vectors, audit_logs, nextLogId, agent_executions, history,
                 config, ncalls, op, args>>

\* the direct calls of log_event tried
LogEventRequests ==
  {[user_id |-> "u1", event_type |-> "login", session_id |-> None, agent_name |-> None],
   [user_id |-> "u1", event_type |-> "handoff", session_id |-> "s1",
    agent_name |-> "financing"]}

\* log_event called by a client: with a session id it resolves it first
CallLogEvent(p, rq) ==
  /\ p \in workers /\ pc[p] = "idle" /\ ncalls < MaxCalls
  /\ ncalls' = ncalls + 1
  /\ op' = [op EXCEPT ![p] = "log_event"]
  /\ args' = [args EXCEPT ![p] = [NoArgs EXCEPT !.user_id = rq.user_id,
                !.event_type = rq.event_type, !.session_id = rq.session_id,
                !.agent_name = rq.agent_name]]
  /\ pc' = [pc EXCEPT ![p] = IF supabase /\ rq.session_id \notin {None, ""}
                             THEN "rs_lookup" ELSE "le_insert"]
  /\ loc' = [loc EXCEPT ![p] = [NoLoc EXCEPT !.ret = "le_insert"]]
  /\ attempt' = [attempt EXCEPT ![p] = 1]
  /\ res' = [res EXCEPT ![p] = NoRes]
  /\ wrote' = [wrote EXCEPT ![p] = NoWrites]
  /\ UNCHANGED <<stores, history, config>>

audit_entry(a, session_uuid) ==
  [event_type |-> a.event_type, event_category |-> "memory", severity |-> "info",
   session_id |-> session_uuid]

\* log_event ends: except Exception logs the failure and nothing is raised
log_event_ends_raising(p, outcome) ==
  IF supabase /\ outcome # "ok"
  THEN Raise(p, outcome)
  ELSE Return(p, [NoRes EXCEPT !.kind = "return"])

log_event_ends(p, outcome) == Return(p, [NoRes EXCEPT !.kind = "return"])

\* the insert into audit_logs
LogEventInsert(p, outcome) ==
  /\ pc[p] = "le_insert"
  /\ IF supabase
     THEN /\ audit_logs' = IF outcome = "ok"
                           THEN Append(audit_logs, audit_entry(args[p], loc[p].session_uuid))
                           ELSE audit_logs
          /\ wrote' = [wrote EXCEPT ![p] = Audited(p, outcome)]
     ELSE UNCHANGED <<audit_logs, wrote>>
  /\ log_event_ends(p, outcome)
  /\ UNCHANGED <<sessions, memory_logs, vectors, nextLogId, agent_executions, history,
                 config, ncalls, op, args>>

\* the calls of log_agent_execution tried
ExecutionRequests ==
  {[user_id |-> "u1", session_id |-> "s1", agent_name |-> "financing",
    status |-> "completed"],
   [user_id |-> "u2", session_id |-> "s2", agent_name |-> "", status |-> "running"]}

CallLogAgentExecution(p, rq) ==
  /\ p \in workers /\ pc[p] = "idle" /\ ncalls < MaxCalls
  /\ ncalls' = ncalls + 1
  /\ op' = [op EXCEPT ![p] = "log_agent_execution"]
  /\ args' = [args EXCEPT ![p] = [NoArgs EXCEPT !.user_id = rq.user_id,
                !.session_id = rq.session_id, !.agent_name = rq.agent_name,
                !.status = rq.status]]
  /\ pc' = [pc EXCEPT ![p] = IF supabase THEN "rs_lookup" ELSE "ae_insert"]
  /\ loc' = [loc EXCEPT ![p] = [NoLoc EXCEPT !.ret = "ae_insert"]]
  /\ attempt' = [attempt EXCEPT ![p] = 1]
  /\ res' = [res EXCEPT ![p] = NoRes]
  /\ wrote' = [wrote EXCEPT ![p] = NoWrites]
  /\ UNCHANGED <<stores, history, config>>

execution_data(a, session_uuid) ==
  [id |-> Cardinality(agent_executions) + 1,
   user_id |-> a.user_id,
   session_id |-> session_uuid,
   agent_name |-> a.agent_name,
   status |-> a.status]

\* if not self.supabase: return ""; the insert outside any try block
AgentExecutionInsert(p, outcome) ==
  /\ pc[p] = "ae_insert"
  /\ IF ~supabase
     THEN /\ Return(p, [NoRes EXCEPT !.kind = "return"])
          /\ UNCHANGED <<agent_executions, wrote>>
     ELSE /\ wrote' = [wrote EXCEPT ![p] = Noted(@, "execution_insert", outcome)]
          /\ IF outcome \in {"ok", "nodata"}
             THEN LET row == execution_data(args[p], loc[p].session_uuid)
                  IN /\ agent_executions' = agent_executions \cup {row}
                     /\ Return(p, [NoRes EXCEPT !.kind = "return",
                                     !.exec_id = IF outcome = "ok" THEN row.id ELSE NoId])
             ELSE Raise(p, outcome) /\ UNCHANGED agent_executions
  /\ UNCHANGED <<sessions, memory_logs, vectors, audit_logs, nextLogId, history,
                 config, ncalls, op, args>>

\* a day passes between two calls: every row of memory_logs is a day older
DayPasses ==
  /\ \A p \in Procs : pc[p] = "idle"
  /\ \E r \in memory_logs : r.age < MaxAge
  /\ memory_logs' = {[r EXCEPT !.age = Min(@ + 1, MaxAge)] : r \in memory_logs}
  /\ UNCHANGED <<sessions, vectors, audit_logs, nextLogId, agent_executions, history, config, ncalls,
                 pc, op, args, loc, attempt, res, wrote>>

\* ---------------------------------------------------------------- the rest
\* the caller takes the result
Done(p) ==
  /\ pc[p] = "done"
  /\ pc' = [pc EXCEPT ![p] = "idle"]
  /\ op' = [op EXCEPT ![p] = "none"]
  /\ args' = [args EXCEPT ![p] = NoArgs]
  /\ loc' = [loc EXCEPT ![p] = NoLoc]
  /\ res' = [res EXCEPT ![p] = NoRes]
  /\ wrote' = [wrote EXCEPT ![p] = NoWrites]
  /\ attempt' = [attempt EXCEPT ![p] = 0]
  /\ UNCHANGED <<stores, history, config, ncalls>>

InitCommon ==
  /\ supabase \in BOOLEAN
  /\ mem0 \in BOOLEAN
  /\ sessions = {}
  /\ memory_logs = {}
  /\ vectors = {}
  /\ audit_logs = <<>>
  /\ nextLogId = 0
  /\ agent_executions = {}
  /\ first_uuid = [s \in ExtSessionIds |-> NoId]
  /\ logged = {}
  /\ ncalls = 0
  /\ pc = [p \in Procs |-> "idle"]
  /\ op = [p \in Procs |-> "none"]
  /\ args = [p \in Procs |-> NoArgs]
  /\ loc = [p \in Procs |-> NoLoc]
  /\ attempt = [p \in Procs |-> 0]
  /\ res = [p \in Procs |-> NoRes]
  /\ wrote = [p \in Procs |-> NoWrites]
  /\ InitApart

\* one caller: calls never overlap
Init == InitCommon /\ workers = {1}

\* two callers sharing the stores
InitConc == InitCommon /\ workers = Procs

Next ==
  \/ \E p \in Procs :
      \/ \E rq \in ResolveRequests :
           CallResolve(p, rq.session_id, rq.user_id, rq.agent_name)
      \/ \E o \in StoreOutcomes : ResolveLookup(p, o)
      \/ \E o \in StoreOutcomes \cup {"nodata", "duplicate"} : ResolveInsert(p, o)
      \/ \E rq \in WriteRequests :
           CallWriteMemory(p, rq.user_id, rq.session_id, rq.payload, rq.memory_type, rq.tags)
      \/ WriteValidate(p)
      \/ \E r \in AddResponses : WriteVector(p, r)
      \/ \E o \in StoreOutcomes \cup {"nodata"} : WriteStructured(p, o)
      \/ \E o \in StoreOutcomes : WriteAudit(p, o)
      \/ \E o \in StoreOutcomes : WriteError(p, o)
      \/ \E rq \in LoadRequests : CallLoadContext(p, rq)
      \/ \E o \in StoreOutcomes : LoadSession(p, o)
      \/ \E o \in StoreOutcomes : LoadMemories(p, o)
      \/ \E o \in StoreOutcomes : LoadGoals(p, o)
      \/ \E o \in StoreOutcomes : LoadBeliefs(p, o)
      \/ \E o \in StoreOutcomes : LoadAudit(p, o)
      \/ \E o \in StoreOutcomes : LoadError(p, o)
      \/ \E u \in Users, t \in 0..MaxAge, m \in MemoryKinds : CallDecayMemory(p, u, t, m)
      \/ \E o \in StoreOutcomes : DecayDelete(p, o)
      \/ \E o \in StoreOutcomes : DecayAudit(p, o)
      \/ \E o \in StoreOutcomes : DecayError(p, o)
      \/ Done(p)
  \/ DayPasses

\* concurrent session resolution
NextResolve ==
  \E p \in Procs :
    \/ \E rq \in ResolveRequests :
         CallResolve(p, rq.session_id, rq.user_id, rq.agent_name)
    \/ \E o \in StoreOutcomes : ResolveLookup(p, o)
    \/ \E o \in StoreOutcomes \cup {"nodata", "duplicate"} : ResolveInsert(p, o)
    \/ Done(p)

Spec == Init /\ [][Next]_vars

SpecConc == InitConc /\ [][NextResolve]_vars

\* every operation of the coordinator, one caller
\* the outcomes tried for the insert of an audit event
AuditOutcomes == {"ok", "APIError"}

\* the calls tried when every operation is in play
CoreWrites ==
  {rq \in WriteRequests : (rq.payload \in {BasePayload, ValidPayload("{b}", "")}) \/ rq.payload.content = ListV}

CoreLoads == {rq \in LoadRequests : rq.include_goals /\ rq.include_beliefs}

CoreResolves == {rq \in ResolveRequests : rq.user_id # None}

CoreExecutions == {rq \in ExecutionRequests : rq.status = "completed"}

NextAll ==
  \/ \E p \in Procs :
      \/ \E rq \in CoreResolves :
           CallResolve(p, rq.session_id, rq.user_id, rq.agent_name)
      \/ \E o \in StoreOutcomes : ResolveLookup(p, o)
      \/ \E o \in StoreOutcomes \cup {"nodata", "duplicate"} : ResolveInsert(p, o)
      \/ \E rq \in CoreWrites :
           CallWriteMemory(p, rq.user_id, rq.session_id, rq.payload, rq.memory_type, rq.tags)
      \/ WriteValidate(p)
      \/ \E r \in AddResponses : WriteVector(p, r)
      \/ \E o \in StoreOutcomes \cup {"nodata"} : WriteStructured(p, o)
      \/ \E o \in AuditOutcomes : WriteAudit(p, o)
      \/ \E o \in AuditOutcomes : WriteError(p, o)
      \/ \E rq \in CoreLoads : CallLoadContext(p, rq)
      \/ \E o \in StoreOutcomes : LoadSession(p, o)
      \/ \E o \in StoreOutcomes : LoadMemories(p, o)
      \/ \E o \in StoreOutcomes : LoadGoals(p, o)
      \/ \E o \in StoreOutcomes : LoadBeliefs(p, o)
      \/ \E o \in AuditOutcomes : LoadAudit(p, o)
      \/ \E o \in AuditOutcomes : LoadError(p, o)
      \/ \E t \in 0..MaxAge : CallDecayMemory(p, "u1", t, None)
      \/ \E o \in StoreOutcomes : DecayDelete(p, o)
      \/ \E o \in AuditOutcomes : DecayAudit(p, o)
      \/ \E o \in AuditOutcomes : DecayError(p, o)
      \/ \E rq \in RecallRequests : CallRecallMemory(p, rq)
      \/ \E o \in StoreOutcomes : RecallSearch(p, o)
      \/ \E o \in StoreOutcomes : RecallEnrich(p, o)
      \/ \E o \in AuditOutcomes : RecallAudit(p, o)
      \/ \E o \in AuditOutcomes : RecallError(p, o)
      \/ \E u \in Users : CallCreateSession(p, u, "financing")
      \/ \E o \in StoreOutcomes : CreateSession(p, o)
      \/ \E sid \in {"s1", "g1"}, st \in CloseStatuses : CallCloseSession(p, sid, st)
      \/ \E o \in StoreOutcomes : CloseSession(p, o)
      \/ \E rq \in LogEventRequests : CallLogEvent(p, rq)
      \/ \E o \in AuditOutcomes : LogEventInsert(p, o)
      \/ \E rq \in CoreExecutions : CallLogAgentExecution(p, rq)
      \/ \E o \in StoreOutcomes \cup {"nodata"} : AgentExecutionInsert(p, o)
      \/ Done(p)
  \/ DayPasses

SpecAll == Init /\ [][NextAll]_vars

\* stores as earlier calls left them: the calls that wrote the rows below
StoredWrites ==
  <<[NoArgs EXCEPT !.user_id = "u1", !.session_id = "s1", !.payload = BasePayload,
                   !.memory_type = "long_term"],
    [NoArgs EXCEPT !.user_id = "u1", !.session_id = "s1", !.payload = BasePayload,
                   !.memory_type = "episodic"],
    [NoArgs EXCEPT !.user_id = "u2", !.session_id = "s2",
                   !.payload = ValidPayload("{b}", ""),
                   !.memory_type = "episodic", !.tags = <<"lease">>],
    [NoArgs EXCEPT !.user_id = "u1", !.session_id = "s1",
                   !.payload = ValidPayload("{b}", "financing"),
                   !.memory_type = "long_term"]>>

\* the vector entry the i-th of these calls added
StoredVector(i) ==
  [id |-> i, user_id |-> StoredWrites[i].user_id,
   content |-> StrOf(StoredWrites[i].payload.content),
   metadata |-> mem0_metadata(StoredWrites[i])]

\* the session rows the resolver created for them
StoredSessions ==
  {[id |-> 1, session_id |-> "s1", user_id |-> "u1", agent_name |-> "financing",
    status |-> "active", ended_at |-> None],
   [id |-> 2, session_id |-> "s2", user_id |-> "u2", agent_name |-> "unknown",
    status |-> "active", ended_at |-> None]}

\* the memory_logs rows: the first call's 45 days ago, the second's (whose
\* vector add failed) 5 days ago, the third's 45 days ago; the fourth call
\* reached the vector store only. A fifth row of the first kind is 5 days old.
StoredLogs ==
  {[memory_log(StoredWrites[1], 1, 1) EXCEPT !.id = 1, !.age = 45],
   [memory_log(StoredWrites[2], 1, NoId) EXCEPT !.id = 2, !.age = 45],
   [memory_log(StoredWrites[3], 2, 3) EXCEPT !.id = 3, !.age = 45],
   [memory_log(StoredWrites[1], 1, 2) EXCEPT !.id = 4, !.age = 5]}

\* the ids memory_logs handed out for them
StoredLogIds == 1..4

InitStored ==
  /\ supabase \in BOOLEAN
  /\ mem0 \in BOOLEAN
  /\ nextLogId = Cardinality(StoredLogIds)
  /\ sessions = StoredSessions
  /\ memory_logs = StoredLogs
  /\ vectors = {StoredVector(i) : i \in DOMAIN StoredWrites}
  /\ audit_logs = <<>>
  /\ agent_executions = {}
  /\ first_uuid = [s \in ExtSessionIds |-> IF s = "s1" THEN 1 ELSE 2]
  /\ logged = {1, 2}
  /\ ncalls = 0
  /\ workers = {1}
  /\ pc = [p \in Procs |-> "idle"]
  /\ op = [p \in Procs |-> "none"]
  /\ args = [p \in Procs |-> NoArgs]
  /\ loc = [p \in Procs |-> NoLoc]
  /\ attempt = [p \in Procs |-> 0]
  /\ res = [p \in Procs |-> NoRes]
  /\ wrote = [p \in Procs |-> NoWrites]
  /\ InitApart

\* recall over stored memories
NextRecall ==
  \E p \in Procs :
    \/ \E rq \in RecallRequests : CallRecallMemory(p, rq)
    \/ \E o \in StoreOutcomes : RecallSearch(p, o)
    \/ \E o \in StoreOutcomes : RecallEnrich(p, o)
    \/ \E o \in StoreOutcomes : RecallAudit(p, o)
    \/ \E o \in StoreOutcomes : RecallError(p, o)
    \/ Done(p)

SpecRecall == InitStored /\ [][NextRecall]_vars

\* the retention windows tried, in days
Thresholds == {0, 30}

\* decay of stored memories
NextDecay ==
  \E p \in Procs :
    \/ \E u \in Users, t \in Thresholds, m \in MemoryKinds : CallDecayMemory(p, u, t, m)
    \/ \E o \in StoreOutcomes : DecayDelete(p, o)
    \/ \E o \in StoreOutcomes : DecayAudit(p, o)
    \/ \E o \in StoreOutcomes : DecayError(p, o)
    \/ Done(p)

SpecDecay == InitStored /\ [][NextDecay]_vars

\* ---------------------------------------------------- get_memory_manager
\* calls of get_memory_manager each thread makes
MaxGets == 2

\* how a run of the constructor ends: _init_supabase returns, or create_client
\* fails and it raises
ConstructorOutcomes == {"ok", "SupabaseConnectionError"}

\* a caller of its own (one at a time)
InitCoordinatorIdle ==
  /\ supabase = FALSE
  /\ mem0 = FALSE
  /\ sessions = {}
  /\ memory_logs = {}
  /\ vectors = {}
  /\ audit_logs = <<>>
  /\ nextLogId = 0
  /\ agent_executions = {}
  /\ first_uuid = [s \in ExtSessionIds |-> NoId]
  /\ logged = {}
  /\ ncalls = 0
  /\ workers = {1}
  /\ pc = [p \in Procs |-> "idle"]
  /\ op = [p \in Procs |-> "none"]
  /\ args = [p \in Procs |-> NoArgs]
  /\ loc = [p \in Procs |-> NoLoc]
  /\ attempt = [p \in Procs |-> 0]
  /\ res = [p \in Procs |-> NoRes]
  /\ wrote = [p \in Procs |-> NoWrites]

\* a thread enters get_memory_manager
CallGetMemoryManager(t) ==
  /\ getter[t].pc = "idle"
  /\ getter[t].calls < MaxGets
  /\ getter' = [getter EXCEPT ![t] = [NoGetter EXCEPT !.pc = "check", !.calls = getter[t].calls + 1]]
  /\ UNCHANGED <<memory_manager_instance, constructed, returned, beside_singleton>>

\* if _memory_manager_instance is None:
GetCheck(t) ==
  /\ getter[t].pc = "check"
  /\ getter' = [getter EXCEPT ![t].pc =
                  IF memory_manager_instance = NoInstance THEN "construct" ELSE "return"]
  /\ UNCHANGED <<memory_manager_instance, constructed, returned, beside_singleton>>

\* MemoryManager(): the constructor runs, and yields a new object unless
\* _init_supabase raises
GetConstruct(t, outcome) ==
  /\ getter[t].pc = "construct"
  /\ constructed' = constructed + 1
  /\ getter' = [getter EXCEPT ![t] =
                  IF outcome = "ok"
                  THEN [@ EXCEPT !.pc = "assign", !.made = constructed + 1]
                  ELSE [@ EXCEPT !.pc = "done", !.exc = outcome]]
  /\ UNCHANGED <<memory_manager_instance, returned, beside_singleton>>

\* _memory_manager_instance = <the new object>
GetAssign(t) ==
  /\ getter[t].pc = "assign"
  /\ memory_manager_instance' = getter[t].made
  /\ getter' = [getter EXCEPT ![t].pc = "return"]
  /\ UNCHANGED <<constructed, returned, beside_singleton>>

\* return _memory_manager_instance
GetReturn(t) ==
  /\ getter[t].pc = "return"
  /\ getter' = [getter EXCEPT ![t] = [@ EXCEPT !.pc = "done", !.ret = memory_manager_instance]]
  /\ returned' = returned \cup {memory_manager_instance}
  /\ UNCHANGED <<memory_manager_instance, constructed, beside_singleton>>

\* the caller takes the instance or the exception
GetDone(t) ==
  /\ getter[t].pc = "done"
  /\ getter' = [getter EXCEPT ![t] = [NoGetter EXCEPT !.calls = getter[t].calls]]
  /\ UNCHANGED <<memory_manager_instance, constructed, returned, beside_singleton>>

InitGetters == InitCoordinatorIdle /\ InitApart

\* threads calling get_memory_manager, interleaved at every statement
NextGetters ==
  \E t \in Procs :
    \/ CallGetMemoryManager(t)
    \/ GetCheck(t)
    \/ \E o \in ConstructorOutcomes : GetConstruct(t, o)
    \/ GetAssign(t)
    \/ GetReturn(t)
    \/ GetDone(t)

SpecGetters == InitGetters /\ [][NextGetters]_vars

\* ------------------------------------------- load_context over five memories
\* the writes behind the vector entries held: five of user u1 in session s1
\* (three by the financing agent, two by the knowledge agent), one of u1 in
\* session s2 and one of user u2
FiveWrites ==
  <<[NoArgs EXCEPT !.user_id = "u1", !.session_id = "s1", !.payload = BasePayload,
                   !.memory_type = "long_term"],
    [NoArgs EXCEPT !.user_id = "u1", !.session_id = "s1", !.payload = BasePayload,
                   !.memory_type = "episodic"],
    [NoArgs EXCEPT !.user_id = "u1", !.session_id = "s1", !.payload = BasePayload,
                   !.memory_type = "long_term", !.tags = <<"lease">>],
    [NoArgs EXCEPT !.user_id = "u1", !.session_id = "s1",
                   !.payload = ValidPayload("{b}", "knowledge"),
                   !.memory_type = "long_term"],
    [NoArgs EXCEPT !.user_id = "u1", !.session_id = "s1",
                   !.payload = ValidPayload("{b}", "knowledge"),
                   !.memory_type = "episodic"],
    [NoArgs EXCEPT !.user_id = "u1", !.session_id = "s2", !.payload = BasePayload,
                   !.memory_type = "long_term"],
    [NoArgs EXCEPT !.user_id = "u2", !.session_id = "s1", !.payload = BasePayload,
                   !.memory_type = "long_term"]>>

\* the vector entry the i-th of these calls added
FiveVector(i) ==
  [id |-> i, user_id |-> FiveWrites[i].user_id,
   content |-> StrOf(FiveWrites[i].payload.content),
   metadata |-> mem0_metadata(FiveWrites[i])]

\* the calls of load_context tried over them
FiveRequests ==
  {[user_id |-> "u1", session_id |-> "s1", agent_name |-> None,
    include_goals |-> TRUE, include_beliefs |-> TRUE, max_memories |-> 2],
   [user_id |-> "u1", session_id |-> "s1", agent_name |-> "financing",
    include_goals |-> FALSE, include_beliefs |-> FALSE, max_memories |-> 2],
   [user_id |-> "u2", session_id |-> "s1", agent_name |-> "",
    include_goals |-> TRUE, include_beliefs |-> FALSE, max_memories |-> 2]}

InitFive ==
  /\ supabase \in BOOLEAN
  /\ mem0 \in BOOLEAN
  /\ nextLogId = 0
  /\ sessions = StoredSessions
  /\ memory_logs = {}
  /\ vectors = {FiveVector(i) : i \in DOMAIN FiveWrites}
  /\ audit_logs = <<>>
  /\ agent_executions = {}
  /\ first_uuid = [s \in ExtSessionIds |-> IF s = "s1" THEN 1 ELSE 2]
  /\ logged = {}
  /\ ncalls = 0
  /\ workers = {1}
  /\ pc = [p \in Procs |-> "idle"]
  /\ op = [p \in Procs |-> "none"]
  /\ args = [p \in Procs |-> NoArgs]
  /\ loc = [p \in Procs |-> NoLoc]
  /\ attempt = [p \in Procs |-> 0]
  /\ res = [p \in Procs |-> NoRes]
  /\ wrote = [p \in Procs |-> NoWrites]
  /\ InitApart

NextFive ==
  \E p \in Procs :
    \/ \E rq \in FiveRequests : CallLoadContext(p, rq)
    \/ \E o \in StoreOutcomes : LoadSession(p, o)
    \/ \E o \in StoreOutcomes : LoadMemories(p, o)
    \/ \E o \in StoreOutcomes : LoadGoals(p, o)
    \/ \E o \in StoreOutcomes : LoadBeliefs(p, o)
    \/ \E o \in StoreOutcomes : LoadAudit(p, o)
    \/ \E o \in StoreOutcomes : LoadError(p, o)
    \/ Done(p)

SpecFive == InitFive /\ [][NextFive]_vars

\* ------------------------------------------------------ composite scoring
\* hits in one search result
MaxHits == 2

\* a key the hit or its metadata does not carry (where a number is expected)
NoNumber == -1

\* metadata["created_at"]: absent, or an ISO-8601 text of an instant some days
\* before now, written without a zone or with the suffix Z
NoCreatedAt == [zone |-> "absent", age |-> 0]
CreatedAts ==
  {NoCreatedAt, [zone |-> "", age |-> 15], [zone |-> "", age |-> 45],
   [zone |-> "Z", age |-> 15]}

\* result["score"], in tenths
Scores == {NoNumber, 8}

\* metadata["access_count"]
AccessCounts == {NoNumber, 5, 10, 12}

\* the hits a search may hand to the scorer; the id of a hit is its place
HitsAt(i) ==
  [id : {i}, score : Scores, created_at : CreatedAts, access_count : AccessCounts,
   composite_score : {NoNumber}]

HitLists ==
  UNION {{q \in [1..n -> UNION {HitsAt(i) : i \in 1..n}] : \A i \in 1..n : q[i].id = i}
         : n \in 0..MaxHits}

\* datetime.fromisoformat(created_at_str.replace("Z", "+00:00")): aware of its
\* zone when the text carries one
fromisoformat(c) == [aware |-> c.zone = "Z", age |-> c.age]

\* (now - created_at).days, now = datetime.utcnow() being naive: Python
\* refuses to subtract an aware datetime from a naive one
age_days(c) == IF fromisoformat(c).aware THEN "TypeError" ELSE "ok"

\* result.get("score", 0.5), in tenths
relevance_score(result) == IF result.score = NoNumber THEN 5 ELSE result.score

\* max(0, 1 - age_days / 30), in thirtieths; 0.5 without created_at
recency_score(result) ==
  IF result.created_at = NoCreatedAt THEN 15
  ELSE IF 30 - fromisoformat(result.created_at).age > 0
       THEN 30 - fromisoformat(result.created_at).age ELSE 0

\* min(1.0, access_count / 10), in tenths, access_count defaulting to 0
frequency_score_unbounded(result) ==
  IF result.access_count = NoNumber THEN 0 ELSE result.access_count

frequency_score(result) ==
  IF result.access_count = NoNumber THEN 0
  ELSE IF result.access_count < 10 THEN result.access_count ELSE 10

\* 0.5 * relevance + 0.3 * recency + 0.2 * frequency, in three-hundredths
composite_score(result) ==
  15 * relevance_score(result) + 3 * recency_score(result) + 6 * frequency_score(result)

\* result["composite_score"] = composite_score
Annotated(result) == [result EXCEPT !.composite_score = composite_score(result)]

\* the first hit whose created_at stops the loop, or 0
FirstRaising(rs) ==
  IF \E i \in DOMAIN rs : rs[i].created_at # NoCreatedAt /\ age_days(rs[i].created_at) # "ok"
  THEN CHOOSE i \in DOMAIN rs :
         /\ rs[i].created_at # NoCreatedAt /\ age_days(rs[i].created_at) # "ok"
         /\ \A j \in 1..(i - 1) :
              rs[j].created_at = NoCreatedAt \/ age_days(rs[j].created_at) = "ok"
  ELSE 0

\* list.sort(key=composite_score, reverse=True): stable, equal keys keep
\* their order
RECURSIVE sort_reverse(_)
sort_reverse(s) ==
  IF s = <<>> THEN <<>>
  ELSE LET x == s[Len(s)]
           front == sort_reverse(SubSeq(s, 1, Len(s) - 1))
           k == Cardinality({i \in DOMAIN front :
                               front[i].composite_score >= x.composite_score})
       IN SubSeq(front, 1, k) \o <<x>> \o SubSeq(front, k + 1, Len(front))

\* what _apply_composite_scoring returns, or raises, for these hits
apply_composite_scoring(rs) ==
  IF FirstRaising(rs) # 0
  THEN [kind |-> "raise", exc |-> "TypeError", value |-> <<>>]
  ELSE [kind |-> "return", exc |-> "none",
        value |-> sort_reverse([i \in DOMAIN rs |-> Annotated(rs[i])])]

\* the caller's hits after the call: the dicts looped over carry the new key
hits_after(rs) ==
  [i \in DOMAIN rs |->
     IF FirstRaising(rs) = 0 \/ i < FirstRaising(rs) THEN Annotated(rs[i]) ELSE rs[i]]

\* self._apply_composite_scoring(results)
ApplyCompositeScoring ==
  /\ scoring = "held"
  /\ scored' = apply_composite_scoring(results)
  /\ results' = hits_after(results)
  /\ scoring' = "scored"
  /\ UNCHANGED <<rescored, beside_scorer>>

\* the scorer applied to its own output, at the same instant
ApplyCompositeScoringAgain ==
  /\ scoring = "scored"
  /\ scored.kind = "return"
  /\ rescored' = apply_composite_scoring(scored.value)
  /\ scored' = [scored EXCEPT !.value = hits_after(scored.value)]
  /\ results' = [i \in DOMAIN results |->
                   IF \E j \in DOMAIN scored.value : scored.value[j].id = i
                   THEN hits_after(scored.value)[CHOOSE j \in DOMAIN scored.value :
                                                    scored.value[j].id = i]
                   ELSE results[i]]
  /\ scoring' = "rescored"
  /\ UNCHANGED beside_scorer

\* the caller drops the hits
ScoringDone ==
  /\ scoring \in {"scored", "rescored"}
  /\ scoring' = "dropped"
  /\ UNCHANGED <<results, scored, rescored, beside_scorer>>

InitScoring ==
  /\ InitCoordinatorIdle
  /\ InitSingleton /\ InitGraphIdle /\ InitWriterIdle /\ InitNamespacedIdle
  /\ results \in HitLists
  /\ scored = NotScored
  /\ rescored = NotScored
  /\ scoring = "held"

NextScoring ==
  \/ ApplyCompositeScoring
  \/ ApplyCompositeScoringAgain
  \/ ScoringDone

SpecScoring == InitScoring /\ [][NextScoring]_vars

\* --------------------------------------------------------- supervisor graph
\* the largest max_iterations a run is started with (the code's default is 10)
MaxIterations == 3

\* Supervisor routing options
members == {"financing", "dealer_matching", "knowledge", "FINISH"}

\* the specialist nodes of the graph
Specialists == {"financing", "dealer_matching", "knowledge"}

\* what the routing model may answer; "<raises>" is llm.invoke raising
Replies ==
  {"financing", " Dealer_Matching ", "knowledge", "FINISH", "ask the financing agent",
   "<raises>"}

\* response.content.strip().lower(), and m.lower() of a member
strip_lower(content) ==
  CASE content = " Dealer_Matching " -> "dealer_matching"
    [] content = "FINISH" -> "finish"
    [] OTHER -> content

\* supervisor_node(state), the model answering with reply
supervisor_node(st, reply) ==
  IF st.iteration_count >= st.max_iterations
  THEN [st EXCEPT !.next_agent = "FINISH", !.error = "Maximum iterations reached",
                  !.completed = TRUE]
  ELSE IF reply = "<raises>"
  THEN [st EXCEPT !.next_agent = "FINISH", !.error = "Supervisor error",
                  !.completed = TRUE]
  ELSE [st EXCEPT !.next_agent = IF strip_lower(reply) \notin {strip_lower(m) : m \in members}
                                 THEN "knowledge" ELSE strip_lower(reply),
                  !.current_agent = "supervisor",
                  !.iteration_count = st.iteration_count + 1]

\* route_supervisor(state): the node the conditional edge leads to
route_supervisor(st) ==
  IF st.next_agent = "FINISH" \/ st.next_agent = "finish" THEN "END" ELSE st.next_agent

\* a specialist node: the answer of its model appended, or the error noted
specialist_node_restarting(st, agent, outcome) ==
  [st EXCEPT !.iteration_count = 0, !.current_agent = agent]

specialist_node(st, agent, outcome) ==
  IF outcome = "ok"
  THEN [st EXCEPT !.messages = st.messages + 1, !.current_agent = agent]
  ELSE [st EXCEPT !.error = agent \o " agent error"]

\* the entry point of the graph, and the conditional edge out of it
SupervisorNode(reply) ==
  /\ node = "supervisor"
  /\ state' = supervisor_node(state, reply)
  /\ node' = route_supervisor(supervisor_node(state, reply))
  /\ invocations' = invocations + 1
  /\ UNCHANGED beside_graph

\* the three specialists, each with its edge back to the supervisor
FinancingNode(outcome) ==
  /\ node = "financing"
  /\ state' = specialist_node(state, "financing", outcome)
  /\ node' = "supervisor"
  /\ UNCHANGED <<invocations, beside_graph>>

DealerMatchingNode(outcome) ==
  /\ node = "dealer_matching"
  /\ state' = specialist_node(state, "dealer_matching", outcome)
  /\ node' = "supervisor"
  /\ UNCHANGED <<invocations, beside_graph>>

KnowledgeNode(outcome) ==
  /\ node = "knowledge"
  /\ state' = specialist_node(state, "knowledge", outcome)
  /\ node' = "supervisor"
  /\ UNCHANGED <<invocations, beside_graph>>

\* a run of the compiled graph starts at the supervisor
InitGraph ==
  /\ InitCoordinatorIdle
  /\ InitSingleton /\ InitScorer /\ InitWriterIdle /\ InitNamespacedIdle
  /\ state \in {[NoState EXCEPT !.max_iterations = m, !.iteration_count = i,
                                !.messages = 1]
                : m \in 1..MaxIterations, i \in 0..1}
  /\ node = "supervisor"
  /\ invocations = 0

NextGraph ==
  \/ \E reply \in Replies : SupervisorNode(reply)
  \/ \E o \in {"ok", "error"} : FinancingNode(o)
  \/ \E o \in {"ok", "error"} : DealerMatchingNode(o)
  \/ \E o \in {"ok", "error"} : KnowledgeNode(o)

SpecGraph == InitGraph /\ [][NextGraph]_vars

\* the executor of the graph runs the next node as long as there is one
FairSpecGraph == SpecGraph /\ WF_vars(NextGraph)

\* ------------------------------------------------------ memory_writer_node
\* the states memory_writer_node is invoked with: user_id and application_id
\* present or not, the run completed or not (the financing agent ran last)
WriterStates ==
  [user_id : {None, "u1"}, application_id : {None, "s1"}, completed : BOOLEAN]

\* memory_writer_node(state) up to its call of write_memory
MemoryWriterNode(p, st) ==
  /\ p \in workers /\ pc[p] = "idle" /\ writer.at = "idle"
  /\ ncalls + 2 <= MaxCalls
  /\ IF st.user_id = None \/ st.application_id = None
     THEN /\ writer' = [NoWriter EXCEPT !.at = "returned", !.user_id = st.user_id,
                                        !.application_id = st.application_id,
                                        !.completed = st.completed]
          /\ UNCHANGED <<ncalls, pc, op, args, loc, attempt, res, wrote>>
     ELSE /\ writer' = [NoWriter EXCEPT !.at = "write_memory", !.user_id = st.user_id,
                                        !.application_id = st.application_id,
                                        !.completed = st.completed]
          /\ ncalls' = ncalls + 1
          /\ op' = [op EXCEPT ![p] = "write_memory"]
          /\ args' = [args EXCEPT ![p] = [NoArgs EXCEPT !.user_id = st.user_id,
                        !.session_id = st.application_id,
                        !.payload = ValidPayload("{a}", "financing"),
                        !.memory_type = "episodic", !.tags = <<"financing">>]]
          /\ pc' = [pc EXCEPT ![p] = "wm_enter"]
          /\ loc' = [loc EXCEPT ![p] = NoLoc]
          /\ attempt' = [attempt EXCEPT ![p] = 1]
          /\ res' = [res EXCEPT ![p] = NoRes]
          /\ wrote' = [wrote EXCEPT ![p] = NoWrites]
  /\ UNCHANGED <<stores, history, supabase, mem0, workers, singleton, scorer, graph, namespaced>>

\* write_memory has returned or raised: the except clause, the call of
\* log_agent_execution when the run is completed, or the confirmation
WriterAfterWrite(p) ==
  /\ writer.at = "write_memory" /\ op[p] = "write_memory" /\ pc[p] = "done"
  /\ LET w == [writer EXCEPT !.vector = wrote[p].vector, !.log = wrote[p].log,
                             !.ran = wrote[p].ran]
     IN IF res[p].kind = "raise"
        THEN /\ writer' = [w EXCEPT !.at = "returned", !.memory_write_error = TRUE]
             /\ pc' = [pc EXCEPT ![p] = "idle"]
             /\ UNCHANGED <<ncalls, op, args, loc, attempt, res, wrote>>
        ELSE IF ~writer.completed
        THEN /\ writer' = [w EXCEPT !.at = "returned", !.memory_written = TRUE,
                                    !.memory_write_result = TRUE]
             /\ pc' = [pc EXCEPT ![p] = "idle"]
             /\ UNCHANGED <<ncalls, op, args, loc, attempt, res, wrote>>
        ELSE /\ writer' = [w EXCEPT !.at = "log_agent_execution"]
             /\ ncalls' = ncalls + 1
             /\ op' = [op EXCEPT ![p] = "log_agent_execution"]
             /\ args' = [args EXCEPT ![p] = [NoArgs EXCEPT !.user_id = writer.user_id,
                           !.session_id = writer.application_id,
                           !.agent_name = "financing", !.status = "completed"]]
             /\ pc' = [pc EXCEPT ![p] = IF supabase THEN "rs_lookup" ELSE "ae_insert"]
             /\ loc' = [loc EXCEPT ![p] = [NoLoc EXCEPT !.ret = "ae_insert"]]
             /\ attempt' = [attempt EXCEPT ![p] = 1]
             /\ res' = [res EXCEPT ![p] = NoRes]
             /\ wrote' = [wrote EXCEPT ![p] = NoWrites]
  /\ UNCHANGED <<stores, history, supabase, mem0, workers, singleton, scorer, graph, namespaced>>

\* log_agent_execution has returned or raised: the confirmation, or the
\* except clause
WriterAfterExecution(p) ==
  /\ writer.at = "log_agent_execution" /\ op[p] = "log_agent_execution" /\ pc[p] = "done"
  /\ writer' = IF res[p].kind = "raise"
               THEN [writer EXCEPT !.at = "returned", !.memory_write_error = TRUE]
               ELSE [writer EXCEPT !.at = "returned", !.memory_written = TRUE,
                                   !.memory_write_result = TRUE]
  /\ pc' = [pc EXCEPT ![p] = "idle"]
  /\ UNCHANGED <<ncalls, op, args, loc, attempt, res, wrote>>
  /\ UNCHANGED <<stores, history, supabase, mem0, workers, singleton, scorer, graph, namespaced>>

\* the stores the node writes to are there or not
InitWriterStores ==
  /\ supabase \in BOOLEAN
  /\ mem0 \in BOOLEAN
  /\ sessions = {}
  /\ memory_logs = {}
  /\ vectors = {}
  /\ audit_logs = <<>>
  /\ nextLogId = 0
  /\ agent_executions = {}
  /\ first_uuid = [s \in ExtSessionIds |-> NoId]
  /\ logged = {}
  /\ ncalls = 0
  /\ workers = {1}
  /\ pc = [p \in Procs |-> "idle"]
  /\ op = [p \in Procs |-> "none"]
  /\ args = [p \in Procs |-> NoArgs]
  /\ loc = [p \in Procs |-> NoLoc]
  /\ attempt = [p \in Procs |-> 0]
  /\ res = [p \in Procs |-> NoRes]
  /\ wrote = [p \in Procs |-> NoWrites]
  /\ InitApart

NextWriter ==
  \E p \in Procs :
    \/ \E st \in WriterStates : MemoryWriterNode(p, st)
    \/ WriterAfterWrite(p)
    \/ WriterAfterExecution(p)
    \/ \E o \in StoreOutcomes : ResolveLookup(p, o)
    \/ \E o \in StoreOutcomes \cup {"nodata", "duplicate"} : ResolveInsert(p, o)
    \/ WriteValidate(p)
    \/ \E r \in AddResponses : WriteVector(p, r)
    \/ \E o \in StoreOutcomes \cup {"nodata"} : WriteStructured(p, o)
    \/ \E o \in StoreOutcomes : WriteAudit(p, o)
    \/ \E o \in StoreOutcomes : WriteError(p, o)
    \/ \E o \in StoreOutcomes : AgentExecutionInsert(p, o)

SpecWriter == InitWriterStores /\ [][NextWriter]_vars

\* ------------------------------------------------------ namespaced managers
\* entries the vector store holds at most
MaxEntries == 2

\* the namespaces managers are constructed with
Namespaces == {"agent:financing", "tenant:t1"}

\* the metadata, or the filters, a caller passes: none, a dict without the key
\* namespace, or a dict with it
CallerDicts ==
  {[given |-> FALSE, namespace |-> Absent, agent |-> Absent],
   [given |-> TRUE, namespace |-> Absent, agent |-> "financing"],
   [given |-> TRUE, namespace |-> "tenant:t1", agent |-> Absent]}

\* {"namespace": self.namespace, **(d or {})}: a key of the caller's dict
\* replaces the manager's
merged(namespace, d) ==
  [d EXCEPT !.given = TRUE,
            !.namespace = IF d.given /\ d.namespace # Absent THEN d.namespace ELSE namespace]

\* the limits searches are made with
Limits == {1, 2}

\* add(content, metadata) through the manager of namespace n; the vector store
\* answers with an id or raises, and a manager without a client returns None
Add(n, metadata, outcome) ==
  /\ Cardinality(entries) < MaxEntries
  /\ entries' = IF outcome = "ok"
                THEN entries \cup {[id |-> Cardinality(entries) + 1, via |-> n,
                                    metadata |-> merged(n, metadata)]}
                ELSE entries
  /\ UNCHANGED <<found, beside_namespaced>>

\* what mem0.search(query, filters, limit) may answer: entries whose metadata
\* match the filters, at most limit of them
Searched(filters, limit) ==
  {ids \in SUBSET {e.id : e \in {x \in entries :
                                   /\ x.metadata.namespace = filters.namespace
                                   /\ filters.agent # Absent =>
                                        x.metadata.agent = filters.agent}} :
     Cardinality(ids) <= limit}

\* search(query, limit, filters) through the manager of namespace n: the
\* store is asked for limit * 2 hits, and at most limit of them are returned
Search(n, limit, filters, outcome) ==
  /\ entries # {}
  /\ \E ids \in Searched(merged(n, filters), limit * 2) :
       /\ Cardinality(ids) <= limit
       /\ found' = {[by |-> n, filters |-> merged(n, filters),
                      ids |-> IF outcome = "ok" THEN ids ELSE {}]}
  /\ UNCHANGED <<entries, beside_namespaced>>

InitNamespaced ==
  /\ InitCoordinatorIdle
  /\ InitSingleton /\ InitScorer /\ InitGraphIdle /\ InitWriterIdle
  /\ entries = {}
  /\ found = {}

NextNamespaced ==
  \/ \E n \in Namespaces, d \in CallerDicts, o \in {"ok", "error"} : Add(n, d, o)
  \/ \E n \in Namespaces, l \in Limits, d \in CallerDicts, o \in {"ok", "error"} :
       Search(n, l, d, o)

SpecNamespaced == InitNamespaced /\ [][NextNamespaced]_vars

\* ------------------------------------------------------------------ claims
\* the payload lacks a required key, or its content is no mapping
Malformed(pl) == (\E f \in required_fields : pl[f] = Absent) \/ pl.content \notin Mappings

\* the ISO-8601 timestamps among the values tried
Iso8601 == {"2024-01-01T00:00:00Z", "2024-01-01T00:00:00", "2024-01-01T00:00:00+00:00"}

\* the payload meets the contract
WellFormed(pl) == ~Malformed(pl) /\ pl.timestamp \in Iso8601

\* the id the vector store handed back in the call of worker p, if any
Yielded(p) ==
  IF wrote[p].response \in {"dict", "list"} THEN wrote[p].vector ELSE NoId

StructuredSteps == {"session_lookup", "session_insert", "log_insert"}

\* every structured-store call of p's call so far answered, with data
StructuredWorked(p) ==
  supabase /\ wrote[p].failed \cap StructuredSteps = {} /\ wrote[p].empty = {}

\* C1: a write_memory call whose payload lacks one of timestamp, agent,
\* session_id, type, content, or whose content is not a mapping, ends raising
\* JSONContractViolation and calls no store: it adds no vector entry, creates
\* no session row and inserts no memory_logs row, whatever the stores hold.
C1_ContractViolationNoWrites ==
  \A p \in Procs :
    (op[p] = "write_memory" /\ Malformed(args[p].payload)) =>
      /\ pc[p] \in {"wm_enter", "done"}
      /\ wrote[p].vector = NoId /\ wrote[p].session = NoId /\ wrote[p].log = NoId
      /\ wrote[p].ran = {} /\ wrote[p].order = <<>>
      /\ pc[p] = "done" =>
           res[p].kind = "raise" /\ res[p].exc = "JSONContractViolation"

C1_Witness ==
  \E p \in Procs :
    /\ op[p] = "write_memory" /\ pc[p] = "done"
    /\ args[p].payload.content = ListV
    /\ res[p].exc = "JSONContractViolation"
    /\ sessions # {} /\ vectors # {} /\ memory_logs # {}

\* C2: within one write_memory call the vector add precedes the structured
\* insert, and the memory_logs row the call inserts carries as vector_id the id
\* the vector store handed back in that call, and None exactly when it handed
\* back none.
C2_VectorBeforeStructured ==
  \A p \in Procs :
    op[p] = "write_memory" =>
      /\ pc[p] \in {"wm_enter", "rs_lookup", "rs_insert", "wm_add"} => wrote[p].log = NoId
      /\ \A i, j \in DOMAIN wrote[p].order :
           (wrote[p].order[i] = "vector" /\ wrote[p].order[j] = "log") => i < j
      /\ wrote[p].log # NoId =>
           /\ "log_insert" \in wrote[p].ran
           /\ mem0 => "vector_add" \in wrote[p].ran
           /\ \A r \in memory_logs :
                r.id = wrote[p].log =>
                  /\ r.vector_id = Yielded(p)
                  /\ (r.vector_id = NoId) <=> (wrote[p].response \notin {"dict", "list"})

C2_Witness ==
  \E p \in Procs :
    /\ op[p] = "write_memory" /\ pc[p] = "done"
    /\ wrote[p].order = <<"session", "vector", "log">>
    /\ \E r \in memory_logs :
         r.id = wrote[p].log /\ r.vector_id = wrote[p].vector /\ r.vector_id # NoId

\* C3 (as claimed): when the structured store is not connected, or the session
\* lookup, the session insert or the memory_logs insert fails, and the vector
\* store handed back an id, write_memory returns normally with that mem0_id and
\* no supabase_id.
C3_StructuredFailureTolerated ==
  \A p \in Procs :
    (/\ op[p] = "write_memory" /\ pc[p] = "done"
     /\ WellFormed(args[p].payload)
     /\ Yielded(p) # NoId
     /\ ~supabase \/ wrote[p].failed \cap StructuredSteps # {}) =>
      /\ res[p].kind = "return"
      /\ res[p].mem0_id = Yielded(p)
      /\ res[p].supabase_id = NoId

\* C4: with a well-formed payload and a structured store whose calls all
\* succeed, a write_memory call that finds no vector store, or whose vector add
\* raises, inserts a memory_logs row with vector_id None and returns normally
\* with no mem0_id and the id of that row as supabase_id.
C4_VectorFailureTolerated ==
  \A p \in Procs :
    (/\ op[p] = "write_memory" /\ pc[p] = "done"
     /\ WellFormed(args[p].payload)
     /\ StructuredWorked(p)
     /\ ~mem0 \/ wrote[p].response = "error") =>
      /\ res[p].kind = "return"
      /\ res[p].mem0_id = NoId
      /\ res[p].supabase_id # NoId
      /\ wrote[p].vector = NoId
      /\ \E r \in memory_logs :
           r.id = res[p].supabase_id /\ r.id = wrote[p].log /\ r.vector_id = NoId

C4_Witness ==
  \E p \in Procs :
    /\ op[p] = "write_memory" /\ pc[p] = "done"
    /\ mem0 /\ wrote[p].response = "error"
    /\ StructuredWorked(p)
    /\ res[p].kind = "return" /\ res[p].supabase_id # NoId /\ res[p].mem0_id = NoId

\* C5 (as claimed): a call of load_context, write_memory or decay_memory in
\* which a store call raised ConnectionError or TimeoutError surfaces a failure
\* to its caller only after max_attempts attempts.
C5_TransientRetried ==
  \A p \in Procs :
    (/\ op[p] \in {"load_context", "write_memory", "decay_memory"}
     /\ pc[p] = "done" /\ res[p].kind = "raise"
     /\ res[p].cause \in Transient) =>
      attempt[p] = max_attempts

\* the session rows held for an external session id
RowsOf(sid) == {r \in sessions : r.session_id = sid}

\* worker p has finished a direct call of resolve_session_uuid
ResolveDone(p) == op[p] = "resolve_session_uuid" /\ pc[p] = "done"

\* C6 (as claimed): when two overlapping resolve_session_uuid calls for the
\* same external session id both found no row at their lookup, and no store
\* call of theirs failed other than by the store rejecting a duplicate row,
\* both return the same internal id and exactly one session row exists for
\* that external id.
C6_ConcurrentResolveSameId ==
  (/\ supabase
   /\ \A p \in Procs :
        /\ ResolveDone(p)
        /\ "session_insert" \in wrote[p].ran
        /\ wrote[p].failed \subseteq wrote[p].rejected
        /\ wrote[p].empty = {}
   /\ args[1].session_id = args[2].session_id) =>
    /\ res[1].uuid # NoId
    /\ res[1].uuid = res[2].uuid
    /\ Cardinality(RowsOf(args[1].session_id)) = 1

\* the agent name a session row created for a call gets
AgentOrUnknown(a) == IF a \in {None, ""} THEN "unknown" ELSE a

\* C7: with a structured store whose calls all succeed and one caller at a
\* time, a resolve_session_uuid call for an external id resolved before returns
\* the internal id the first call returned and leaves the session table as it
\* was, whatever user_id and agent_name it passes; a call for an id with no row
\* adds exactly one row, with status active, the user id given and the agent
\* name given or "unknown", and returns the id of that row.
C7_SequentialIdempotence ==
  [][\A p \in Procs :
       (/\ op[p] = "resolve_session_uuid" /\ pc[p] # "done" /\ pc'[p] = "done"
        /\ supabase /\ wrote'[p].failed = {} /\ wrote'[p].empty = {}) =>
         LET sid == args[p].session_id
         IN /\ res'[p].kind = "return" /\ res'[p].uuid # NoId
            /\ Cardinality({r \in sessions' : r.session_id = sid}) = 1
            /\ first_uuid[sid] # NoId =>
                 /\ res'[p].uuid = first_uuid[sid]
                 /\ sessions' = sessions
                 /\ wrote'[p].session = NoId
            /\ {r \in sessions : r.session_id = sid} = {} =>
                 \E r \in sessions' :
                   /\ sessions' = sessions \cup {r} /\ r \notin sessions
                   /\ r.id = res'[p].uuid /\ r.session_id = sid
                   /\ r.status = "active"
                   /\ r.user_id = args[p].user_id
                   /\ r.agent_name = AgentOrUnknown(args[p].agent_name)]_vars

C7_Witness ==
  \E p \in Procs :
    /\ ResolveDone(p) /\ supabase
    /\ wrote[p].ran = {"session_lookup"} /\ wrote[p].failed = {}
    /\ res[p].uuid # NoId /\ res[p].uuid = first_uuid[args[p].session_id]
    /\ \E r \in sessions :
         /\ r.id = res[p].uuid /\ r.agent_name = "unknown" /\ r.status = "active"
         /\ r.user_id # args[p].user_id /\ args[p].agent_name = "financing"

\* C8: every memory_logs row write_memory has ever inserted references the
\* internal id of a session row that existed when it was inserted and exists
\* ever after; and a write_memory call whose session resolution returned None
\* inserts no memory_logs row, yet returns normally reporting the id the vector
\* store handed back, if any.
C8_LogReferencesSession ==
  /\ logged \subseteq {r.id : r \in sessions}
  /\ \A m \in memory_logs : \E r \in sessions : r.id = m.session_id
  /\ \A p \in Procs :
       (/\ op[p] = "write_memory"
        /\ \/ pc[p] \in {"wm_add", "wm_insert", "wm_audit", "wm_error"}
           \/ pc[p] = "done" /\ res[p].exc # "JSONContractViolation"
        /\ loc[p].session_uuid = NoId) =>
         /\ wrote[p].log = NoId
         /\ "log_insert" \notin wrote[p].ran
         /\ pc[p] # "wm_error"
         /\ pc[p] = "done" =>
              /\ res[p].kind = "return"
              /\ res[p].supabase_id = NoId
              /\ res[p].mem0_id = Yielded(p)

C8_Witness ==
  \E p \in Procs :
    /\ op[p] = "write_memory" /\ pc[p] = "done"
    /\ supabase /\ "session_lookup" \in wrote[p].failed
    /\ loc[p].session_uuid = NoId
    /\ res[p].kind = "return" /\ res[p].mem0_id # NoId
    /\ memory_logs # {} /\ logged # {}

\* C9: a direct call of resolve_session_uuid always ends by returning, never
\* by raising; when the structured store is not connected, or its lookup or
\* its insert call failed, the call returns None and has added no session row.
C9_ResolveNeverRaises ==
  \A p \in Procs :
    ResolveDone(p) =>
      /\ res[p].kind = "return"
      /\ (~supabase \/ wrote[p].failed # {}) =>
           /\ res[p].uuid = NoId
           /\ wrote[p].session = NoId
           /\ "session" \notin {wrote[p].order[i] : i \in DOMAIN wrote[p].order}

C9_Witness ==
  \E p \in Procs :
    /\ ResolveDone(p) /\ supabase
    /\ "session_insert" \in wrote[p].failed
    /\ res[p].kind = "return" /\ res[p].uuid = NoId
    /\ RowsOf(args[p].session_id) = {}

\* the four fetch steps of load_context
LoadSteps == {"session", "memories", "goals", "beliefs"}

SnapshotEmpty(r) ==
  r.session = NoId /\ r.recent_memories = <<>> /\ r.goals = {} /\ r.beliefs = {}

\* the stores hold data the call asked for
HoldsMatching(a) ==
  \/ mem0 /\ a.max_memories > 0 /\ Matches(a.user_id, load_filters(a)) # {}
  \/ supabase /\ RowsOf(a.session_id) # {}
  \/ /\ supabase /\ a.include_goals
     /\ \E g \in goal_assessments :
          g.user_id = a.user_id /\ g.session_id = a.session_id /\ g.status = "active"
  \/ /\ supabase /\ a.include_beliefs
     /\ \E b \in belief_graphs : b.user_id = a.user_id /\ b.session_id = a.session_id

\* C11 (as claimed): a load_context call in which a store query failed either
\* ends raising MemoryManagerError, or returns a snapshot; it never returns a
\* snapshot with no session, no recent memories, no goals and no beliefs while
\* the stores hold data matching the call.
C11_NoSilentlyEmptySnapshot ==
  \A p \in Procs :
    (/\ op[p] = "load_context" /\ pc[p] = "done"
     /\ wrote[p].failed \cap LoadSteps # {}) =>
      \/ res[p].kind = "raise" /\ res[p].exc = "MemoryManagerError"
      \/ /\ res[p].kind = "return"
         /\ ~(SnapshotEmpty(res[p]) /\ HoldsMatching(args[p]))

\* the calls made to the vector store
VectorSteps == {"vector_add", "memories", "search"}

\* the four core operations
CoreOperations == {"load_context", "write_memory", "recall_memory", "decay_memory"}

\* C12 (as claimed): with the structured store connected and every call to it
\* succeeding, each completed load_context, write_memory, recall_memory and
\* decay_memory call, returning or raising, has appended at least one audit
\* event.
C12_EveryCallAudited ==
  \A p \in Procs :
    (/\ op[p] \in CoreOperations /\ pc[p] = "done"
     /\ supabase
     /\ wrote[p].failed \subseteq VectorSteps /\ wrote[p].empty = {}) =>
      wrote[p].audit >= 1

\* C13 (as claimed): the memory_logs row that recall_memory attaches to a hit
\* as supabase_data has as content the content of the payload that
\* write_memory was given (the payload is kept in the row's metadata).
C13_RecallRoundTrip ==
  \A p \in Procs :
    (op[p] = "recall_memory" /\ pc[p] = "done" /\ res[p].kind = "return") =>
      \A i \in DOMAIN res[p].memories :
        \A r \in res[p].memories[i].supabase_data :
          r.content = r.metadata.content

\* the recall call of worker p is over and none of its store calls raised
Recalled(p) ==
  /\ op[p] = "recall_memory" /\ pc[p] = "done"
  /\ mem0 /\ wrote[p].failed \subseteq {"audit"}

\* C14: a recall_memory call whose store calls succeed returns one result per
\* hit of the vector store, in the store's order; with the structured store
\* connected a hit carries as supabase_data a memory_logs row whose vector_id
\* is the hit's id when there is one, and no supabase_data when there is none
\* or when the structured store is not connected.
C14_RecallEnrichment ==
  \A p \in Procs :
    Recalled(p) =>
      /\ res[p].kind = "return"
      /\ Len(res[p].memories) = Len(loc[p].memories)
      /\ \A i \in DOMAIN res[p].memories :
           LET hit == res[p].memories[i]
               rows == {r \in memory_logs : r.vector_id = hit.id}
           IN /\ hit.id = loc[p].memories[i].id
              /\ hit.supabase_data \subseteq rows
              /\ Cardinality(hit.supabase_data) =
                   IF supabase /\ rows # {} THEN 1 ELSE 0

C14_Witness ==
  \E p \in Procs :
    /\ Recalled(p) /\ supabase
    /\ Len(res[p].memories) = 2
    /\ res[p].memories[1].supabase_data = {}
    /\ \E r \in memory_logs :
         res[p].memories[2].supabase_data = {r} /\ r.vector_id = res[p].memories[2].id

\* C15 (as claimed): a recall_memory call whose search succeeded and in which
\* the fetch of some hit's memory_logs row raised still returns every hit of
\* the search.
C15_EnrichmentFailureAbsorbed ==
  \A p \in Procs :
    (/\ op[p] = "recall_memory" /\ pc[p] = "done"
     /\ "search" \in wrote[p].ran \ wrote[p].failed
     /\ "enrich" \in wrote[p].failed) =>
      /\ res[p].kind = "return"
      /\ Len(res[p].memories) = Len(loc[p].memories)
      /\ \A i \in DOMAIN res[p].memories : res[p].memories[i].id = loc[p].memories[i].id

\* C16: with no vector store a recall_memory call returns the empty sequence,
\* raising nothing and calling no store: it reads neither memory_logs nor
\* sessions and leaves every table as it was.
C16_RecallWithoutVectorStore ==
  \A p \in Procs :
    (op[p] = "recall_memory" /\ ~mem0) =>
      /\ wrote[p].ran = {} /\ wrote[p].audit = 0
      /\ memory_logs = StoredLogs /\ sessions = StoredSessions /\ audit_logs = <<>>
      /\ pc[p] \in {"rm_search", "done"}
      /\ pc[p] = "done" => res[p].kind = "return" /\ res[p].memories = <<>>

C16_Witness ==
  \E p \in Procs :
    /\ op[p] = "recall_memory" /\ pc[p] = "done" /\ ~mem0 /\ supabase
    /\ TagsOrEmpty(args[p].tags) = <<"lease">>
    /\ res[p].kind = "return" /\ res[p].memories = <<>>
    /\ \E e \in vectors : e.user_id = args[p].user_id

\* C17: the structured delete of decay_memory(user, threshold_days, kind)
\* removes exactly the memory_logs rows of that user written threshold_days or
\* more whole days before and, when a kind is given, of that kind; every other
\* row stays as it was, and the supabase_deleted returned is the number of
\* rows removed.
C17_DecayDeletesExactly ==
  [][\A p \in Procs :
       /\ (pc[p] = "dm_delete" /\ pc'[p] = "dm_audit" /\ supabase) =>
            LET gone == memory_logs \ memory_logs'
            IN /\ memory_logs' \subseteq memory_logs
               /\ \A r \in memory_logs :
                    r \in gone <=>
                      /\ r.user_id = args[p].user_id
                      /\ r.age >= args[p].threshold_days
                      /\ args[p].memory_type # None => r.memory_type = args[p].memory_type
               /\ loc'[p].supabase_deleted = Cardinality(gone)
       /\ (pc[p] = "dm_audit" /\ pc'[p] = "done") =>
            /\ res'[p].kind = "return"
            /\ res'[p].supabase_deleted = loc[p].supabase_deleted
            /\ memory_logs' = memory_logs]_vars

C17_Witness ==
  \E p \in Procs :
    /\ op[p] = "decay_memory" /\ pc[p] = "done"
    /\ args[p].user_id = "u1" /\ args[p].threshold_days = 30
    /\ args[p].memory_type = "long_term"
    /\ res[p].supabase_deleted = 1
    /\ memory_logs = {r \in StoredLogs : r.id # 1}
    /\ \E r \in memory_logs :
         r.user_id = "u1" /\ r.memory_type = "long_term" /\ r.age = 5

\* C18 (as claimed): a decay_memory call that finds the structured store not
\* connected, or whose delete call raises, ends raising MemoryManagerError.
C18_DecayFailsWhenUnreachable ==
  \A p \in Procs :
    (/\ op[p] = "decay_memory" /\ pc[p] = "done"
     /\ ~supabase \/ "delete" \in wrote[p].failed) =>
      res[p].kind = "raise" /\ res[p].exc = "MemoryManagerError"

C20_SessionsNeverDeleted ==
  [][/\ Cardinality(sessions') >= Cardinality(sessions)
     /\ \A r \in sessions :
          \E n \in sessions' :
            /\ n.id = r.id /\ n.session_id = r.session_id
            /\ n.user_id = r.user_id /\ n.agent_name = r.agent_name
            /\ n # r =>
                 \E p \in Procs :
                   /\ op[p] = "close_session" /\ pc[p] = "cl_update"
                   /\ r.session_id = args[p].session_id
                   /\ n.status = args[p].status /\ n.ended_at # None]_vars

C20_Witness ==
  \E p \in Procs :
    /\ op[p] = "close_session" /\ pc[p] = "done" /\ res[p].kind = "return"
    /\ \E r \in sessions :
         /\ r.session_id = args[p].session_id
         /\ r.status = "failed" /\ r.ended_at # None /\ r.id # NoId

\* C21: the process-wide coordinator is constructed at most once: over any
\* interleaving of get_memory_manager calls the constructor has run at most
\* once, and every call that returned has returned the same instance.
C21_ConstructedOnce ==
  /\ constructed <= 1
  /\ Cardinality(returned) <= 1

\* the payload's agent is an empty string or no string at all
AgentUnnamed(pl) == pl.agent = "" \/ pl.agent \in NonStrings

\* C22: a write_memory call whose payload has an agent that is an empty
\* string or not a string, or a timestamp that is no ISO-8601 string, is
\* rejected by the contract validator before any store is touched: it never
\* gets past validation, records nothing, and ends raising
\* JSONContractViolation.
C22_AgentAndTimestampRejected ==
  \A p \in Procs :
    (/\ op[p] = "write_memory"
     /\ \A f \in required_fields : args[p].payload[f] # Absent
     /\ AgentUnnamed(args[p].payload) \/ args[p].payload.timestamp \notin Iso8601) =>
      /\ pc[p] \in {"wm_enter", "done"}
      /\ wrote[p].ran = {} /\ wrote[p].order = <<>>
      /\ pc[p] = "done" =>
           res[p].kind = "raise" /\ res[p].exc = "JSONContractViolation"

\* the vector entry with this id
EntryOf(id) == CHOOSE e \in vectors : e.id = id

\* C23: a load_context call with max_memories = N that returns carries at
\* most N recent memories, each an entry of the requested user and session
\* (and of the agent, when one is given); where the vector store holds five
\* memories of the session and answers, a call with N = 2 and no agent
\* returns exactly two.
C23_AtMostNOfTheSession ==
  \A p \in Procs :
    (op[p] = "load_context" /\ pc[p] = "done" /\ res[p].kind = "return") =>
      LET got == res[p].recent_memories
          a == args[p]
      IN /\ Len(got) <= a.max_memories
         /\ \A i \in DOMAIN got :
              /\ EntryOf(got[i]).user_id = a.user_id
              /\ EntryOf(got[i]).metadata.session_id = a.session_id
              /\ a.agent_name \notin {None, ""} =>
                   EntryOf(got[i]).metadata.agent_name = a.agent_name
         /\ (/\ mem0 /\ "memories" \notin wrote[p].failed
             /\ a.agent_name = None /\ a.max_memories = 2
             /\ Cardinality({e \in vectors : e.user_id = a.user_id
                               /\ e.metadata.session_id = a.session_id}) = 5) =>
              Len(got) = 2

C23_Witness ==
  \E p \in Procs :
    /\ op[p] = "load_context" /\ pc[p] = "done" /\ res[p].kind = "return"
    /\ args[p].user_id = "u1" /\ args[p].agent_name = None /\ args[p].max_memories = 2
    /\ Cardinality({e \in vectors : e.user_id = "u1" /\ e.metadata.session_id = "s1"}) = 5
    /\ Len(res[p].recent_memories) = 2

\* the hits are in descending order of composite_score, equal scores in the
\* order of the input
Ranked(q) ==
  \A i, j \in DOMAIN q :
    i < j => \/ q[i].composite_score > q[j].composite_score
             \/ q[i].composite_score = q[j].composite_score /\ q[i].id < q[j].id

\* C24: the composite scorer returns a permutation of the input hits, each
\* annotated with composite_score = 0.5 relevance + 0.3 recency + 0.2
\* frequency, in descending order of that score with ties in input order; and
\* applied to its own output at the same instant it returns the same sequence.
C24_RankedPermutation ==
  scoring \in {"scored", "rescored"} =>
    /\ scored.kind = "return"
    /\ Len(scored.value) = Len(results)
    /\ \A i \in DOMAIN results : \E j \in DOMAIN scored.value : scored.value[j].id = i
    /\ \A j \in DOMAIN scored.value :
         /\ scored.value[j].id \in DOMAIN results
         /\ scored.value[j] = Annotated(results[scored.value[j].id])
    /\ Ranked(scored.value)
    /\ scoring = "rescored" => rescored = scored

\* metadata.get("access_count", 0)
AccessCount(h) == IF h.access_count = NoNumber THEN 0 ELSE h.access_count

\* C25: between two scored hits of equal relevance and recency, the one with
\* the larger access_count has the strictly larger composite_score as long as
\* the smaller count is below 10, and the two scores are equal once both
\* counts are 10 or more.
C25_FrequencySaturatesAtTen ==
  scored.kind = "return" =>
    \A i, j \in DOMAIN scored.value :
      LET g == scored.value[i]
          h == scored.value[j]
      IN (/\ relevance_score(g) = relevance_score(h)
          /\ recency_score(g) = recency_score(h)
          /\ AccessCount(g) < AccessCount(h)) =>
           /\ AccessCount(g) < 10 => g.composite_score < h.composite_score
           /\ AccessCount(g) >= 10 => g.composite_score = h.composite_score

C25_Witness ==
  /\ scoring = "scored" /\ scored.kind = "return" /\ Len(scored.value) = 2
  /\ \E i, j \in DOMAIN scored.value :
       /\ scored.value[i].score = scored.value[j].score
       /\ scored.value[i].created_at = scored.value[j].created_at
       /\ scored.value[i].access_count = 10 /\ scored.value[j].access_count = 12
       /\ scored.value[i].composite_score = scored.value[j].composite_score
       /\ scored.value[i].composite_score # NoNumber

\* C26: the composite scorer is free of side effects and a function of its
\* input: a call leaves the hits passed in, and every other piece of state,
\* as they were, and what it returns is determined by those hits.
C26_ScorerLeavesHits ==
  [][(scoring = "held" /\ scoring' = "scored") =>
       /\ results' = results
       /\ scored' = apply_composite_scoring(results)
       /\ UNCHANGED beside_scorer]_vars

\* C27: every run of the supervisor graph terminates. A supervisor step that
\* routes to a specialist raises iteration_count by exactly 1; no specialist
\* step changes it, and each leads back to the supervisor; a supervisor step
\* taken with iteration_count >= max_iterations routes to FINISH with
\* completed set; the supervisor runs at most max_iterations + 1 times; what
\* it leaves in next_agent is one of financing, dealer_matching, knowledge or
\* finish (in either case of letters); and the run reaches the end.
C27_GraphTerminates ==
  /\ [][/\ (node = "supervisor" /\ node' \in Specialists) =>
            state'.iteration_count = state.iteration_count + 1
        /\ node \in Specialists =>
            state'.iteration_count = state.iteration_count /\ node' = "supervisor"
        /\ (node = "supervisor" /\ state.iteration_count >= state.max_iterations) =>
            node' = "END" /\ state'.completed /\ state'.next_agent = "FINISH"]_vars
  /\ [](invocations <= state.max_iterations + 1)
  /\ [](invocations > 0 =>
         strip_lower(state.next_agent) \in {"financing", "dealer_matching", "knowledge", "finish"})
  /\ [](node \in Specialists \cup {"supervisor", "END"})
  /\ <>[](node = "END")

C27_Witness ==
  /\ node = "END"
  /\ invocations = state.max_iterations + 1
  /\ state.max_iterations = MaxIterations
  /\ state.completed /\ state.error = "Maximum iterations reached"
  /\ state.messages > 1

\* C28: memory_writer_node never raises and reports faithfully: it returns
\* memory_written exactly when this invocation persisted a memory through
\* write_memory (a vector entry or a memory_logs row); whenever it returns
\* memory_write_error this invocation persisted no memory record; and with
\* user_id or application_id missing it returns the state as it was and has
\* called no store.
C28_WriterReportsFaithfully ==
  writer.at = "returned" =>
    /\ ~writer.raised
    /\ writer.memory_written <=> (writer.vector # NoId \/ writer.log # NoId)
    /\ writer.memory_write_error => (writer.vector = NoId /\ writer.log = NoId)
    /\ (writer.user_id = None \/ writer.application_id = None) =>
         /\ ~writer.memory_written /\ ~writer.memory_write_error
         /\ writer.ran = {}

\* the steps that are a call of log_event: the audit event that closes a core
\* operation, the error event of its except clause, and log_event itself
AuditSteps ==
  {"wm_audit", "wm_error", "lc_audit", "lc_error", "dm_audit", "dm_error",
   "rm_audit", "rm_error", "le_insert"}

\* what the call of worker p is about to return or raise when it reaches its
\* audit step
Prepared(p) ==
  CASE pc[p] = "wm_audit" ->
         [NoRes EXCEPT !.kind = "return", !.supabase_id = loc[p].supabase_id,
                       !.mem0_id = loc[p].mem0_id]
    [] pc[p] = "lc_audit" ->
         [NoRes EXCEPT !.kind = "return", !.session = loc[p].session,
                       !.recent_memories = loc[p].recent_memories,
                       !.goals = loc[p].goals, !.beliefs = loc[p].beliefs]
    [] pc[p] = "dm_audit" ->
         [NoRes EXCEPT !.kind = "return", !.supabase_deleted = loc[p].supabase_deleted,
                       !.mem0_deleted = loc[p].mem0_deleted]
    [] pc[p] = "rm_audit" ->
         [NoRes EXCEPT !.kind = "return", !.memories = loc[p].enriched_memories]
    [] pc[p] \in {"rm_error", "le_insert"} -> [NoRes EXCEPT !.kind = "return"]
    [] OTHER ->
         [NoRes EXCEPT !.kind = "raise", !.exc = "MemoryManagerError", !.cause = loc[p].exc]

\* C29: log_event never raises, and the outcome of a core operation does not
\* depend on its audit insert: whether that insert succeeds or fails, the
\* step ends the call with the value or error the operation had prepared,
\* and leaves sessions, memory_logs, the vector store and agent_executions
\* as they were.
C29_AuditNeverChangesOutcome ==
  [][\A p \in Procs :
       (pc[p] \in AuditSteps /\ pc'[p] # pc[p]) =>
         /\ pc'[p] = "done"
         /\ res'[p] = Prepared(p)
         /\ UNCHANGED <<sessions, memory_logs, vectors, nextLogId, agent_executions>>]_vars

C29_Witness ==
  \E p \in Procs :
    /\ pc[p] = "done" /\ "audit" \in wrote[p].failed
    /\ \/ op[p] = "write_memory" /\ res[p].kind = "return" /\ res[p].supabase_id # NoId
       \/ op[p] = "log_event" /\ res[p].kind = "return"

\* C30: namespaces are isolated: every entry added through a manager of
\* namespace N is stored with metadata namespace N, every search through it
\* is filtered by namespace N whatever metadata or filters the caller
\* passes, and no search returns an entry that was added through a manager
\* of another namespace.
C30_NamespaceIsolation ==
  /\ \A e \in entries : e.metadata.namespace = e.via
  /\ \A f \in found :
       /\ f.filters.namespace = f.by
       /\ \A e \in entries : e.id \in f.ids => e.via = f.by

====
